---------------------------- MODULE Spec2Model ----------------------------
(***************************************************************************)
(* A model of gtfs-go: the binary record codec of the entity types, the    *)
(* bbolt-backed store with its buckets, the load of a store file (FromDB), *)
(* the concurrent ingest (FromURL) and the scheduling query                *)
(* (GetCurrentTripsWithBuffer).                                            *)
(*                                                                         *)
(* Strings, keys and payloads are sequences of bytes (0..255).  A          *)
(* time.Time is the number of seconds since the Unix epoch (all times the  *)
(* parsers build are in UTC).  A float64 is the tuple of its IEEE-754      *)
(* fields <<sign, exponent, m0, m1, m2, m3>>, the 52-bit mantissa cut into *)
(* a 4-bit and three 16-bit limbs.                                         *)
(***************************************************************************)
EXTENDS Integers, Sequences, FiniteSets, TLC

VARIABLES
    cEntity,    \* codec: the entity handed to Encode, with its kind
    cPayload,   \* codec: the bytes handed to Decode
    cOp,        \* codec: "init", "roundtrip", "truncate" or "append"
    cResult,    \* codec: what Decode returned
    db,         \* the store file: bucket name -> (key -> value)
    g,          \* the GTFS value: [Version, Created, db], db the handle
    lErr,       \* load: the last call on the GTFS value and what it returned
    feed,       \* the parsed feed the store file was built from
    query,      \* scheduling: the arguments of the last call
    answer,     \* scheduling: what the call returned
    pc,         \* ingest: where each goroutine of FromURL is
    errChannel, \* ingest: the errors buffered in errChannel
    completion, \* ingest: the value a goroutine is sending on completion
    parsed,     \* ingest: the variables the goroutines share
    wg,         \* ingest: the counter of the WaitGroup
    ret         \* ingest: what FromURL did and returned

codecVars == <<cEntity, cPayload, cOp, cResult>>
loadVars  == <<db, g, lErr>>
schedVars == <<feed, query, answer>>
ingestVars == <<pc, errChannel, completion, parsed, wg, ret>>
vars == <<cEntity, cPayload, cOp, cResult, db, g, lErr, feed, query, answer,
          pc, errChannel, completion, parsed, wg, ret>>

---------------------------------------------------------------------------
(* Byte sizes of the encoded scalars, and the schema version.              *)
lenBytes == 4
timeBytes == 8
boolBytes == 1
float64Bytes == 8
uint8Bytes == 1
uint32Bytes == 4
CurrentVersion == 2
secondsInDay == 24 * 60 * 60

\* The largest integer of the model: stands for every uint32 above it.
Huge == 2147483646 + 1

Min(a, b) == IF a < b THEN a ELSE b
Max(a, b) == IF a > b THEN a ELSE b

Ok(v) == [ok |-> TRUE, val |-> v]
Err(msg) == [ok |-> FALSE, err |-> msg]

\* data[offset : offset+n] of a Go slice: offsets count from 0.
Slice(data, offset, n) == SubSeq(data, offset + 1, offset + n)

\* binary.BigEndian.PutUint32 of a value below 2^31.
PutUint32(n) ==
    <<n \div 16777216, (n \div 65536) % 256, (n \div 256) % 256, n % 256>>

\* binary.BigEndian.Uint32(data[offset:]); a value of 2^31 or more reads as Huge.
Uint32(data, offset) ==
    IF data[offset + 1] >= 128 THEN Huge
    ELSE data[offset + 1] * 16777216 + data[offset + 2] * 65536
         + data[offset + 3] * 256 + data[offset + 4]

\* binary.BigEndian.PutUint64(uint64(x)) of an int64 within 32 bits: a negative
\* x is the two's complement, the bitwise NOT of -x-1.
PutInt64(x) ==
    IF x >= 0 THEN <<0, 0, 0, 0>> \o PutUint32(x)
    ELSE LET y == PutUint32(-(x + 1))
         IN  <<255, 255, 255, 255>> \o [i \in 1..4 |-> 255 - y[i]]

\* int64(binary.BigEndian.Uint64(data[offset:])); a value outside 32 bits is
\* kept as its eight bytes.
Int64(data, offset) ==
    LET hi == Slice(data, offset, 4)
        lo == Slice(data, offset + 4, 4)
    IN  IF hi = <<0, 0, 0, 0>> /\ lo[1] < 128 THEN Uint32(lo, 0)
        ELSE IF hi = <<255, 255, 255, 255>> /\ lo[1] >= 128
             THEN -(Uint32([i \in 1..4 |-> 255 - lo[i]], 0)) - 1
        ELSE [raw |-> Slice(data, offset, 8)]

\* binary.BigEndian.PutUint64(math.Float64bits(f)).
PutFloat64(f) ==
    <<f[1] * 128 + f[2] \div 16, (f[2] % 16) * 16 + f[3],
      f[4] \div 256, f[4] % 256, f[5] \div 256, f[5] % 256,
      f[6] \div 256, f[6] % 256>>

\* math.Float64frombits(binary.BigEndian.Uint64(data[offset:])).
Float64(data, offset) ==
    LET b == Slice(data, offset, 8)
    IN  <<b[1] \div 128, (b[1] % 128) * 16 + b[2] \div 16, b[2] % 16,
          b[3] * 256 + b[4], b[5] * 256 + b[6], b[7] * 256 + b[8]>>

\* A 4-byte length followed by the bytes of the string.
PutString(s) == PutUint32(Len(s)) \o s

\* The two checks and the read of a length-prefixed string at offset:
\* [ok, val, off] or [ok |-> FALSE, at |-> "length" | "content"].
ReadString(data, offset) ==
    IF offset + lenBytes > Len(data) THEN [ok |-> FALSE, at |-> "length"]
    ELSE LET n == Uint32(data, offset)
             o == offset + lenBytes
         IN  IF n > Len(data) - o THEN [ok |-> FALSE, at |-> "content"]
             ELSE [ok |-> TRUE, val |-> Slice(data, o, n), off |-> o + n]

\* A bool stored as one byte.
PutBool(b) == IF b THEN <<1>> ELSE <<0>>

---------------------------------------------------------------------------
(* The composite value types: KeyArray, Coordinate, CoordinateArray,       *)
(* TripStop and TripStopArray.                                             *)

RECURSIVE ConcatAll(_)
\* The concatenation of a sequence of byte sequences.
ConcatAll(parts) ==
    IF parts = <<>> THEN <<>> ELSE Head(parts) \o ConcatAll(Tail(parts))

\* KeyArray.Encode: the count, then each key with its length.
KeyArrayEncode(ka) ==
    PutUint32(Len(ka)) \o ConcatAll([i \in 1..Len(ka) |-> PutString(ka[i])])

RECURSIVE KeyArrayDecodeKeys(_, _, _, _)
\* The loop of KeyArray.Decode: i keys read so far into acc, count wanted.
KeyArrayDecodeKeys(data, offset, count, acc) ==
    IF Len(acc) = count THEN [ok |-> TRUE, val |-> acc, off |-> offset]
    ELSE LET k == ReadString(data, offset)
         IN  IF ~k.ok THEN [ok |-> FALSE, at |-> k.at]
             ELSE KeyArrayDecodeKeys(data, k.off, count, Append(acc, k.val))

\* KeyArray.Decode without its check that the buffer was consumed.
KeyArrayDecodeNoTrailingCheck(data) ==
    IF lenBytes > Len(data) THEN Err("keyarray buffer too small for count")
    ELSE LET r == KeyArrayDecodeKeys(data, lenBytes, Uint32(data, 0), <<>>)
         IN  IF ~r.ok THEN Err("keyarray buffer too small for key")
             ELSE Ok(r.val)

\* KeyArray.Decode.
KeyArrayDecode(data) ==
    IF lenBytes > Len(data) THEN Err("keyarray buffer too small for count")
    ELSE LET r == KeyArrayDecodeKeys(data, lenBytes, Uint32(data, 0), <<>>)
         IN  IF ~r.ok THEN Err("keyarray buffer too small for key")
             ELSE IF r.off # Len(data)
                  THEN Err("keyarray buffer not fully consumed, trailing data exists")
             ELSE Ok(r.val)

\* Coordinate.Encode: latitude, then longitude.
CoordinateEncode(c) == PutFloat64(c.Latitude) \o PutFloat64(c.Longitude)

\* Coordinate.Decode.
CoordinateDecode(data) ==
    IF Len(data) < float64Bytes * 2 THEN Err("coordinate buffer too small")
    ELSE IF float64Bytes * 2 # Len(data)
         THEN Err("coordinate buffer not fully consumed, trailing data exists")
    ELSE Ok([Latitude |-> Float64(data, 0),
             Longitude |-> Float64(data, float64Bytes)])

\* CoordinateArray.Encode: the count, then each coordinate.
CoordinateArrayEncode(ca) ==
    PutUint32(Len(ca)) \o ConcatAll([i \in 1..Len(ca) |-> CoordinateEncode(ca[i])])

RECURSIVE CoordinateArrayDecodeCoords(_, _, _, _)
\* The loop of CoordinateArray.Decode.
CoordinateArrayDecodeCoords(data, offset, count, acc) ==
    IF Len(acc) = count THEN [ok |-> TRUE, val |-> acc, off |-> offset]
    ELSE IF offset + float64Bytes * 2 > Len(data) THEN [ok |-> FALSE]
    ELSE LET c == CoordinateDecode(Slice(data, offset, float64Bytes * 2))
         IN  IF ~c.ok THEN [ok |-> FALSE]
             ELSE CoordinateArrayDecodeCoords(data, offset + float64Bytes * 2,
                                              count, Append(acc, c.val))

\* CoordinateArray.Decode.
CoordinateArrayDecode(data) ==
    IF lenBytes > Len(data) THEN Err("coordinatearray buffer too small for count")
    ELSE LET r == CoordinateArrayDecodeCoords(data, lenBytes, Uint32(data, 0), <<>>)
         IN  IF ~r.ok THEN Err("coordinatearray buffer too small for coordinate")
             ELSE IF r.off # Len(data)
                  THEN Err("coordinatearray buffer not fully consumed, trailing data exists")
             ELSE Ok(r.val)

\* TripStop.Encode: stop id, arrival, departure (uint32 each), timepoint.
TripStopEncode(ts) ==
    PutString(ts.StopID) \o PutUint32(ts.ArrivalTime)
    \o PutUint32(ts.DepartureTime) \o PutBool(ts.Timepoint)

\* TripStop.Decode.
TripStopDecode(data) ==
    LET id == ReadString(data, 0) IN
    IF ~id.ok THEN Err("tripstop buffer too small for StopID") ELSE
    IF id.off + uint32Bytes > Len(data)
    THEN Err("tripstop buffer too small for ArrivalTime") ELSE
    IF id.off + 2 * uint32Bytes > Len(data)
    THEN Err("tripstop buffer too small for DepartureTime") ELSE
    LET o == id.off + 2 * uint32Bytes IN
    IF o + boolBytes > Len(data)
    THEN Err("tripstop buffer too small for Timepoint") ELSE
    IF data[o + 1] \notin {0, 1}
    THEN Err("invalid byte value for bool (Timepoint)") ELSE
    IF o + boolBytes # Len(data)
    THEN Err("tripstop buffer not fully consumed, trailing data exists") ELSE
    Ok([StopID |-> id.val,
        ArrivalTime |-> Uint32(data, id.off),
        DepartureTime |-> Uint32(data, id.off + uint32Bytes),
        Timepoint |-> (data[o + 1] = 1)])

\* TripStopArray.Encode: the count, then each stop with the length of its bytes.
TripStopArrayEncode(tsa) ==
    PutUint32(Len(tsa))
    \o ConcatAll([i \in 1..Len(tsa) |-> PutString(TripStopEncode(tsa[i]))])

RECURSIVE TripStopArrayDecodeStops(_, _, _, _)
\* The loop of TripStopArray.Decode.
TripStopArrayDecodeStops(data, offset, count, acc) ==
    IF Len(acc) = count THEN [ok |-> TRUE, val |-> acc, off |-> offset]
    ELSE LET s == ReadString(data, offset)
         IN  IF ~s.ok THEN [ok |-> FALSE]
             ELSE LET ts == TripStopDecode(s.val)
                  IN  IF ~ts.ok THEN [ok |-> FALSE]
                      ELSE TripStopArrayDecodeStops(data, s.off, count,
                                                    Append(acc, ts.val))

\* TripStopArray.Decode.
TripStopArrayDecode(data) ==
    IF lenBytes > Len(data) THEN Err("tripstoparray buffer too small for count")
    ELSE LET r == TripStopArrayDecodeStops(data, lenBytes, Uint32(data, 0), <<>>)
         IN  IF ~r.ok THEN Err("tripstoparray: failed to decode TripStop")
             ELSE IF r.off # Len(data)
                  THEN Err("tripstoparray buffer not fully consumed, trailing data exists")
             ELSE Ok(r.val)

---------------------------------------------------------------------------
(* The entity types.  A *Key is <<>> (nil) or <<k>> (a pointer to k).      *)

\* Agency.Encode: name, URL, timezone.
AgencyEncode(a) == PutString(a.Name) \o PutString(a.URL) \o PutString(a.Timezone)

\* Agency.Decode.
AgencyDecode(id, data) ==
    LET name == ReadString(data, 0) IN
    IF ~name.ok THEN Err("buffer too small for Agency Name") ELSE
    LET url == ReadString(data, name.off) IN
    IF ~url.ok THEN Err("buffer too small for Agency URL") ELSE
    LET tz == ReadString(data, url.off) IN
    IF ~tz.ok THEN Err("buffer too small for Agency Timezone") ELSE
    IF tz.off # Len(data)
    THEN Err("agency buffer not fully consumed, trailing data exists") ELSE
    Ok([ID |-> id, Name |-> name.val, URL |-> url.val, Timezone |-> tz.val])

\* The string Route.Encode writes for a shape reference: "" for nil.
ShapeRefString(ref) == IF ref = <<>> THEN <<>> ELSE ref[1]

\* Route.Encode: agency id, name, type, colour, the two shape ids, the stops.
RouteEncode(r) ==
    PutString(r.AgencyID) \o PutString(r.Name) \o <<r.Type>>
    \o PutString(r.Colour)
    \o PutString(ShapeRefString(r.InboundShapeID))
    \o PutString(ShapeRefString(r.OutboundShapeID))
    \o KeyArrayEncode(r.Stops)

\* The shape reference Route.Decode builds from the string it read: nil for
\* a length of 0.
ShapeRefOf(str) == IF Len(str) > 0 THEN <<str>> ELSE <<>>

\* Route.Decode.
RouteDecode(id, data) ==
    LET agency == ReadString(data, 0) IN
    IF ~agency.ok THEN Err("buffer too small for AgencyID") ELSE
    LET name == ReadString(data, agency.off) IN
    IF ~name.ok THEN Err("buffer too small for Name") ELSE
    IF name.off + 1 > Len(data) THEN Err("buffer too small for Type") ELSE
    LET colour == ReadString(data, name.off + 1) IN
    IF ~colour.ok THEN Err("buffer too small for Colour") ELSE
    LET inbound == ReadString(data, colour.off) IN
    IF ~inbound.ok THEN Err("buffer too small for InboundShapeID") ELSE
    LET outbound == ReadString(data, inbound.off) IN
    IF ~outbound.ok THEN Err("buffer too small for OutboundShapeID") ELSE
    LET stops == KeyArrayDecode(Slice(data, outbound.off, Len(data) - outbound.off)) IN
    IF ~stops.ok THEN Err("failed to decode Stops") ELSE
    Ok([ID |-> id, AgencyID |-> agency.val, Name |-> name.val,
        Type |-> data[name.off + 1], Colour |-> colour.val,
        InboundShapeID |-> ShapeRefOf(inbound.val),
        OutboundShapeID |-> ShapeRefOf(outbound.val),
        Stops |-> stops.val])

\* Stop.Encode: code, name, parent id, location, location type, modes.
StopEncode(st) ==
    PutString(st.Code) \o PutString(st.Name) \o PutString(st.ParentID)
    \o CoordinateEncode(st.Location) \o <<st.LocationType>> \o <<st.SupportedModes>>

\* Stop.Decode.
StopDecode(id, data) ==
    LET code == ReadString(data, 0) IN
    IF ~code.ok THEN Err("stop buffer too small for Code") ELSE
    LET name == ReadString(data, code.off) IN
    IF ~name.ok THEN Err("stop buffer too small for Name") ELSE
    LET parent == ReadString(data, name.off) IN
    IF ~parent.ok THEN Err("stop buffer too small for ParentID") ELSE
    LET coordinateSize == float64Bytes * 2 IN
    IF parent.off + coordinateSize > Len(data)
    THEN Err("stop buffer too small for Location data") ELSE
    LET loc == CoordinateDecode(Slice(data, parent.off, coordinateSize))
        o == parent.off + coordinateSize IN
    IF ~loc.ok THEN Err("failed to decode Location") ELSE
    IF o + uint8Bytes > Len(data)
    THEN Err("stop buffer too small for LocationType") ELSE
    IF o + 2 * uint8Bytes > Len(data)
    THEN Err("stop buffer too small for SupportedModes") ELSE
    IF o + 2 * uint8Bytes # Len(data)
    THEN Err("stop buffer not fully consumed, trailing data exists") ELSE
    Ok([ID |-> id, Code |-> code.val, Name |-> name.val,
        ParentID |-> parent.val, Location |-> loc.val,
        LocationType |-> data[o + 1], SupportedModes |-> data[o + 2]])

\* Service.Encode: weekdays, start date, end date (Unix seconds).
ServiceEncode(sv) ==
    <<sv.Weekdays>> \o PutInt64(sv.StartDate) \o PutInt64(sv.EndDate)

\* Service.Decode.
ServiceDecode(id, data) ==
    IF 1 > Len(data) THEN Err("service buffer too small for Weekdays") ELSE
    IF 1 + timeBytes > Len(data)
    THEN Err("service buffer too small for StartDate") ELSE
    IF 1 + 2 * timeBytes > Len(data)
    THEN Err("service buffer too small for EndDate") ELSE
    IF 1 + 2 * timeBytes # Len(data)
    THEN Err("service buffer not fully consumed, trailing data exists") ELSE
    Ok([ID |-> id, Weekdays |-> data[1],
        StartDate |-> Int64(data, 1), EndDate |-> Int64(data, 1 + timeBytes)])

\* ServiceException.Encode: service id, date (Unix seconds), type.
ServiceExceptionEncode(se) ==
    PutString(se.ServiceID) \o PutInt64(se.Date) \o PutBool(se.Type)

\* ServiceException.Decode: it takes no key, the service id is in the payload.
ServiceExceptionDecode(data) ==
    LET id == ReadString(data, 0) IN
    IF ~id.ok THEN Err("buffer too small for ServiceID") ELSE
    IF id.off + timeBytes > Len(data) THEN Err("buffer too small for Date") ELSE
    LET o == id.off + timeBytes IN
    IF o + boolBytes > Len(data) THEN Err("buffer too small for Type") ELSE
    IF data[o + 1] \notin {0, 1}
    THEN Err("invalid byte value for bool (Type)") ELSE
    IF o + boolBytes # Len(data)
    THEN Err("buffer not fully consumed, trailing data exists") ELSE
    Ok([ServiceID |-> id.val, Date |-> Int64(data, id.off),
        Type |-> (data[o + 1] = 1)])

\* Shape.Encode: the coordinates.
ShapeEncode(sh) == CoordinateArrayEncode(sh.Coordinates)

\* Shape.Decode.
ShapeDecode(id, data) ==
    LET ca == CoordinateArrayDecode(data) IN
    IF ~ca.ok THEN ca ELSE Ok([ID |-> id, Coordinates |-> ca.val])

\* Trip.Encode: route, service and shape ids, direction, headsign, stops.
TripEncode(t) ==
    PutString(t.RouteID) \o PutString(t.ServiceID) \o PutString(t.ShapeID)
    \o PutBool(t.Direction) \o PutString(t.Headsign)
    \o TripStopArrayEncode(t.Stops)

\* Trip.Decode.
TripDecode(id, data) ==
    LET route == ReadString(data, 0) IN
    IF ~route.ok THEN Err("trip buffer too small for RouteID") ELSE
    LET service == ReadString(data, route.off) IN
    IF ~service.ok THEN Err("trip buffer too small for ServiceID") ELSE
    LET shape == ReadString(data, service.off) IN
    IF ~shape.ok THEN Err("trip buffer too small for ShapeID") ELSE
    IF shape.off + boolBytes > Len(data)
    THEN Err("trip buffer too small for Direction") ELSE
    IF data[shape.off + 1] \notin {0, 1}
    THEN Err("invalid byte value for bool (Direction)") ELSE
    LET headsign == ReadString(data, shape.off + boolBytes) IN
    IF ~headsign.ok THEN Err("trip buffer too small for Headsign") ELSE
    LET stops == TripStopArrayDecode(
                     Slice(data, headsign.off, Len(data) - headsign.off)) IN
    IF ~stops.ok THEN Err("failed to decode Stops for Trip") ELSE
    Ok([ID |-> id, RouteID |-> route.val, ServiceID |-> service.val,
        ShapeID |-> shape.val, Direction |-> (data[shape.off + 1] = 1),
        Headsign |-> headsign.val, Stops |-> stops.val])

\* Trip.StartTime: the arrival at the first stop, 0 without stops.
StartTime(t) == IF Len(t.Stops) = 0 THEN 0 ELSE t.Stops[1].ArrivalTime

\* Trip.EndTime: the departure at the last stop, 0 without stops.
EndTime(t) == IF Len(t.Stops) = 0 THEN 0 ELSE t.Stops[Len(t.Stops)].DepartureTime

---------------------------------------------------------------------------
(* The codec on its own: an entity is encoded, and Decode is given the     *)
(* payload, a strict prefix of it, or the payload with bytes appended.     *)

\* The longest string and the longest sequence (keys, coordinates, trip
\* stops) of an entity handed to Encode.
MaxStrLen == 1
MaxSeqLen == 2

RECURSIVE SeqsUpTo(_, _)
\* The sequences over S of length n or less.
SeqsUpTo(S, n) ==
    IF n = 0 THEN {<<>>}
    ELSE LET shorter == SeqsUpTo(S, n - 1)
         IN  shorter \cup {Append(q, x) : q \in {r \in shorter : Len(r) = n - 1}, x \in S}

Chars == {0, 97}
Strings == SeqsUpTo(Chars, MaxStrLen)
Names == {<<>>, <<76, 105, 110, 101>>}
Keys == {<<>>, <<107>>}
ShapeRefs == {<<>>, <<<<>>>>, <<<<115>>>>}

\* 0.0, 90.0, -90.0, 180.0, -180.0 and a value with every limb set.
F0 == <<0, 0, 0, 0, 0, 0>>
F90 == <<0, 1029, 6, 32768, 0, 0>>
FNeg90 == <<1, 1029, 6, 32768, 0, 0>>
F180 == <<0, 1030, 6, 32768, 0, 0>>
FNeg180 == <<1, 1030, 6, 32768, 0, 0>>
FAny == <<1, 1027, 15, 62300, 4660, 65535>>
Coordinates == {[Latitude |-> F0, Longitude |-> F0],
                [Latitude |-> F90, Longitude |-> F180],
                [Latitude |-> FNeg90, Longitude |-> FNeg180],
                [Latitude |-> FAny, Longitude |-> FAny]}

\* Midnights in UTC: 2025-01-01, 2025-12-31, the epoch and the day before it.
Dates == {20089 * secondsInDay, 20453 * secondsInDay, 0, -secondsInDay}

TripStops == {[StopID |-> k, ArrivalTime |-> tm[1], DepartureTime |-> tm[2],
               Timepoint |-> tp]
              : k \in Keys, tm \in {<<0, 0>>, <<85800, 86700>>}, tp \in BOOLEAN}

Agencies == {[kind |-> "Agency",
              val |-> [ID |-> id, Name |-> n, URL |-> u, Timezone |-> z]]
             : id \in Keys, n \in Strings, u \in Strings, z \in Strings}
Routes == {[kind |-> "Route",
            val |-> [ID |-> <<114>>, AgencyID |-> a, Name |-> n, Type |-> ty,
                     Colour |-> <<>>, InboundShapeID |-> i,
                     OutboundShapeID |-> o, Stops |-> st]]
           : a \in Keys, n \in Strings, ty \in {0, 12},
             i \in ShapeRefs, o \in ShapeRefs, st \in SeqsUpTo(Keys, MaxSeqLen)}
Stops == {[kind |-> "Stop",
           val |-> [ID |-> <<115>>, Code |-> c, Name |-> n, ParentID |-> p,
                    Location |-> l, LocationType |-> lt, SupportedModes |-> m]]
          : c \in Keys, n \in Strings, p \in Keys, l \in Coordinates,
            lt \in {0, 5}, m \in {0, 15}}
Services == {[kind |-> "Service",
              val |-> [ID |-> <<118>>, Weekdays |-> w, StartDate |-> sd,
                       EndDate |-> ed]]
             : w \in {0, 1, 127}, sd \in Dates, ed \in Dates}
ServiceExceptions == {[kind |-> "ServiceException",
                       val |-> [ServiceID |-> sid, Date |-> d, Type |-> ty]]
                      : sid \in Strings, d \in Dates, ty \in BOOLEAN}
Shapes == {[kind |-> "Shape", val |-> [ID |-> <<104>>, Coordinates |-> ca]]
           : ca \in SeqsUpTo(Coordinates, MaxSeqLen)}
Trips == {[kind |-> "Trip",
           val |-> [ID |-> <<116>>, RouteID |-> r, ServiceID |-> sv,
                    ShapeID |-> sh, Direction |-> d, Headsign |-> h, Stops |-> st]]
          : r \in Keys, sv \in {<<118>>}, sh \in Keys, d \in BOOLEAN, h \in Names,
            st \in SeqsUpTo(TripStops, MaxSeqLen)}

Entities == Agencies \cup Routes \cup Stops \cup Services
            \cup ServiceExceptions \cup Shapes \cup Trips

\* e.Encode() of an entity of each kind.
EncodeEntity(e) ==
    CASE e.kind = "Agency" -> AgencyEncode(e.val)
      [] e.kind = "Route" -> RouteEncode(e.val)
      [] e.kind = "Stop" -> StopEncode(e.val)
      [] e.kind = "Service" -> ServiceEncode(e.val)
      [] e.kind = "ServiceException" -> ServiceExceptionEncode(e.val)
      [] e.kind = "Shape" -> ShapeEncode(e.val)
      [] e.kind = "Trip" -> TripEncode(e.val)

\* Decode of the kind of e, under e's own key.
DecodeEntity(e, data) ==
    CASE e.kind = "Agency" -> AgencyDecode(e.val.ID, data)
      [] e.kind = "Route" -> RouteDecode(e.val.ID, data)
      [] e.kind = "Stop" -> StopDecode(e.val.ID, data)
      [] e.kind = "Service" -> ServiceDecode(e.val.ID, data)
      [] e.kind = "ServiceException" -> ServiceExceptionDecode(data)
      [] e.kind = "Shape" -> ShapeDecode(e.val.ID, data)
      [] e.kind = "Trip" -> TripDecode(e.val.ID, data)

\* The bytes appended to a payload.
Extras == {<<0>>, <<1>>, <<255>>, <<0, 0, 0, 0>>}

NoResult == [ok |-> FALSE, err |-> "not called"]

CodecIdle ==
    /\ cEntity = [kind |-> "none"]
    /\ cPayload = <<>>
    /\ cOp = "idle"
    /\ cResult = NoResult

CodecInit ==
    /\ cEntity \in Entities
    /\ cPayload = EncodeEntity(cEntity)
    /\ cOp = "init"
    /\ cResult = NoResult

\* Decode(key, e.Encode()).
CodecRoundTrip ==
    /\ cOp = "init"
    /\ cOp' = "roundtrip"
    /\ cResult' = DecodeEntity(cEntity, cPayload)
    /\ UNCHANGED <<cEntity, cPayload, loadVars, schedVars, ingestVars>>

\* Decode of the first n bytes of the payload, n below its length.
CodecTruncate ==
    /\ cOp = "init"
    /\ \E n \in 0..(Len(cPayload) - 1) :
          /\ cPayload' = SubSeq(cPayload, 1, n)
          /\ cResult' = DecodeEntity(cEntity, cPayload')
    /\ cOp' = "truncate"
    /\ UNCHANGED <<cEntity, loadVars, schedVars, ingestVars>>

\* Decode of the payload followed by extra bytes.
CodecAppend ==
    /\ cOp = "init"
    /\ \E extra \in Extras :
          /\ cPayload' = cPayload \o extra
          /\ cResult' = DecodeEntity(cEntity, cPayload')
    /\ cOp' = "append"
    /\ UNCHANGED <<cEntity, loadVars, schedVars, ingestVars>>

---------------------------------------------------------------------------
(* The store file: a function from the names of the buckets it holds to    *)
(* the buckets, each a function from keys to values.                       *)

EmptyBucket == <<>>
EmptyDB == [n \in {} |-> EmptyBucket]

\* tx.Bucket(name) of a bucket the file holds.
Bucket(d, name) == d[name]

\* tx.CreateBucketIfNotExists(name): the bucket as it is, or a new empty one.
CreateBucketIfNotExists(d, name) ==
    IF name \in DOMAIN d THEN d[name] ELSE EmptyBucket

\* The file with bucket name set to b.
WithBucket(d, name, b) ==
    [n \in DOMAIN d \cup {name} |-> IF n = name THEN b ELSE d[n]]

\* b after b.Put(k, m[k]) for every key of m.
PutAll(b, m) ==
    [k \in DOMAIN b \cup DOMAIN m |-> IF k \in DOMAIN m THEN m[k] ELSE b[k]]

\* b.Put(key, ...) fails on an empty key (bbolt's ErrKeyRequired).
PutFails(key) == key = <<>>

\* The permutations of a finite set, as sequences: the orders in which a Go
\* map may be iterated.
Orders(S) ==
    {o \in [1..Cardinality(S) -> S] : \A x \in S : \E i \in DOMAIN o : o[i] = x}

\* The sequence seq without the elements that fail keep.
RECURSIVE SelectSeqBy(_, _)
SelectSeqBy(seq, keepSet) ==
    IF seq = <<>> THEN <<>>
    ELSE IF Head(seq) \in keepSet
         THEN <<Head(seq)>> \o SelectSeqBy(Tail(seq), keepSet)
    ELSE SelectSeqBy(Tail(seq), keepSet)

\* The last element of a non-empty sequence.
Last(seq) == seq[Len(seq)]

\* The days since 1970-01-01 of an instant, and the civil date of a day.
DayOf(unix) == unix \div secondsInDay
CivilDate(day) ==
    LET z == day + 719468
        era == z \div 146097
        doe == z - era * 146097
        yoe == (doe - doe \div 1460 + doe \div 36524 - doe \div 146096) \div 365
        doy == doe - (365 * yoe + yoe \div 4 - yoe \div 100)
        mp == (5 * doy + 2) \div 153
        d == doy - (153 * mp + 2) \div 5 + 1
        m == IF mp < 10 THEN mp + 3 ELSE mp - 9
        y == yoe + era * 400 + (IF m <= 2 THEN 1 ELSE 0)
    IN  [year |-> y, month |-> m, day |-> d]

\* The decimal digit d as a character.
Digit(d) == 48 + d

\* time.Format("20060102") of an instant whose wall clock reads wall seconds
\* since the epoch: four digits of year, two of month, two of day.
DateFormat(wall) ==
    LET c == CivilDate(DayOf(wall))
    IN  <<Digit((c.year \div 1000) % 10), Digit((c.year \div 100) % 10),
          Digit((c.year \div 10) % 10), Digit(c.year % 10),
          Digit(c.month \div 10), Digit(c.month % 10),
          Digit(c.day \div 10), Digit(c.day % 10)>>

\* The decimal digits of a number below 100 without a leading zero.
Unpadded(n) == IF n < 10 THEN <<Digit(n)>> ELSE <<Digit(n \div 10), Digit(n % 10)>>

\* The key of a service exception with the month and the day of the date
\* written without leading zeros.
ServiceExceptionStoreKeyUnpadded(serviceID, wall) ==
    LET c == CivilDate(DayOf(wall))
    IN  serviceID
        \o <<Digit((c.year \div 1000) % 10), Digit((c.year \div 100) % 10),
             Digit((c.year \div 10) % 10), Digit(c.year % 10)>>
        \o Unpadded(c.month) \o Unpadded(c.day)

\* The key of a service exception: the service id followed by the date.
ServiceExceptionStoreKey(serviceID, wall) == serviceID \o DateFormat(wall)

BatchNames == {"agencies", "routes", "services", "serviceExceptions",
               "shapes", "stops", "trips"}

\* e.Encode() of an entity stored in the bucket.
EncodeFor(name, e) ==
    CASE name = "agencies" -> AgencyEncode(e)
      [] name = "routes" -> RouteEncode(e)
      [] name = "services" -> ServiceEncode(e)
      [] name = "shapes" -> ShapeEncode(e)
      [] name = "stops" -> StopEncode(e)
      [] name = "trips" -> TripEncode(e)

\* One db.Batch of Populate that fills bucket name from the entity map m:
\* the file afterwards, and whether the batch failed (its commit failed or
\* a Put did; the transaction is then rolled back).
PlainBatch(d, name, m, commitFails) ==
    IF commitFails \/ \E id \in DOMAIN m : PutFails(m[id].ID)
    THEN [db |-> d, failed |-> TRUE]
    ELSE [db |-> WithBucket(d, name,
                   PutAll(CreateBucketIfNotExists(d, name),
                          [k \in {m[id].ID : id \in DOMAIN m} |->
                              EncodeFor(name,
                                  CHOOSE e \in {m[id] : id \in DOMAIN m} : e.ID = k)])),
          failed |-> FALSE]

\* The name index written while m is iterated in order: each non-empty name
\* is put once per entity that has it, and the last Put stays.
NameIndex(m, order) ==
    LET names == {m[id].Name : id \in DOMAIN m} \ {<<>>}
    IN  [n \in names |->
            m[Last(SelectSeqBy(order, {id \in DOMAIN m : m[id].Name = n}))].ID]

\* The batch plain, which has filled a bucket of d, with the name index
\* filled in the same transaction.
WithNameIndex(plain, d, indexName, m, order) ==
    IF plain.failed THEN plain
    ELSE [db |-> WithBucket(plain.db, indexName,
                   PutAll(CreateBucketIfNotExists(d, indexName),
                          NameIndex(m, order))),
          failed |-> FALSE]

\* A db.Batch of Populate that fills a bucket and its name index (routes,
\* stops).
NamedBatch(d, name, indexName, m, order, commitFails) ==
    WithNameIndex(PlainBatch(d, name, m, commitFails), d, indexName, m, order)

\* The db.Batch of the service exceptions, keyed by service id and date.
ServiceExceptionBatch(d, m, commitFails) ==
    IF commitFails THEN [db |-> d, failed |-> TRUE]
    ELSE [db |-> WithBucket(d, "serviceExceptions",
                   PutAll(CreateBucketIfNotExists(d, "serviceExceptions"),
                          [k \in {ServiceExceptionStoreKey(m[x].ServiceID, m[x].Date)
                                  : x \in DOMAIN m} |->
                              ServiceExceptionEncode(
                                  CHOOSE e \in {m[x] : x \in DOMAIN m} :
                                      ServiceExceptionStoreKey(e.ServiceID, e.Date) = k)])),
          failed |-> FALSE]

\* The ids of the trips of route r, in the order the map is iterated.
TripIDsOfRoute(m, order, r) ==
    LET ids == SelectSeqBy(order, {id \in DOMAIN m : m[id].RouteID = r})
    IN  [i \in 1..Len(ids) |-> m[ids[i]].ID]

\* The batch plain, which has filled the trips bucket of d, with
\* tripsByRouteIndex filled in the same transaction.
WithTripsByRouteIndex(plain, d, m, order) ==
    IF plain.failed THEN plain
    ELSE [db |-> WithBucket(plain.db, "tripsByRouteIndex",
                   PutAll(CreateBucketIfNotExists(d, "tripsByRouteIndex"),
                          [r \in {m[id].RouteID : id \in DOMAIN m} \ {<<>>} |->
                              KeyArrayEncode(TripIDsOfRoute(m, order, r))])),
          failed |-> FALSE]

\* The db.Batch of the trips: the trips bucket, and tripsByRouteIndex with,
\* for each non-empty route id, the ids of its trips in iteration order.
TripBatch(d, m, order, commitFails) ==
    WithTripsByRouteIndex(PlainBatch(d, "trips", m, commitFails), d, m, order)

\* Populate: the seven batches in turn.  Only the error of the first, the
\* agencies, is returned: the error of each later batch is assigned and
\* never read, and the function ends with return nil.
\* env.failing: the batches whose commit fails; env.routeOrder, stopOrder,
\* tripOrder: the orders in which the maps are iterated.
Populate(d, newFeed, env) ==
    LET b1 == PlainBatch(d, "agencies", newFeed.agencies,
                         "agencies" \in env.failing) IN
    IF b1.failed THEN [db |-> b1.db, err |-> TRUE] ELSE
    LET b2 == NamedBatch(b1.db, "routes", "routesByNameIndex", newFeed.routes,
                         env.routeOrder, "routes" \in env.failing)
        b3 == PlainBatch(b2.db, "services", newFeed.services,
                         "services" \in env.failing)
        b4 == ServiceExceptionBatch(b3.db, newFeed.serviceExceptions,
                                    "serviceExceptions" \in env.failing)
        b5 == PlainBatch(b4.db, "shapes", newFeed.shapes,
                         "shapes" \in env.failing)
        b6 == NamedBatch(b5.db, "stops", "stopsByNameIndex", newFeed.stops,
                         env.stopOrder, "stops" \in env.failing)
        b7 == TripBatch(b6.db, newFeed.trips, env.tripOrder, "trips" \in env.failing)
    IN  [db |-> b7.db, err |-> FALSE]

---------------------------------------------------------------------------
(* The queries, as functions of the store file d they read.                *)

\* GetAgencyByID without its check that the key was found: the missing
\* record is decoded as an empty buffer.
GetAgencyByIDNoNilCheck(d, agencyID) ==
    IF "agencies" \notin DOMAIN d THEN Err("bucket not found") ELSE
    IF agencyID \notin DOMAIN Bucket(d, "agencies")
    THEN AgencyDecode(agencyID, <<>>) ELSE
    AgencyDecode(agencyID, Bucket(d, "agencies")[agencyID])

\* GetAgencyByID.
GetAgencyByID(d, agencyID) ==
    IF "agencies" \notin DOMAIN d THEN Err("bucket not found") ELSE
    IF agencyID \notin DOMAIN Bucket(d, "agencies") THEN Err("agency not found") ELSE
    AgencyDecode(agencyID, Bucket(d, "agencies")[agencyID])

\* GetRouteByID.
GetRouteByID(d, routeID) ==
    IF "routes" \notin DOMAIN d THEN Err("bucket not found") ELSE
    IF routeID \notin DOMAIN Bucket(d, "routes") THEN Err("route not found") ELSE
    RouteDecode(routeID, Bucket(d, "routes")[routeID])

\* GetServiceByID.
GetServiceByID(d, serviceID) ==
    IF "services" \notin DOMAIN d THEN Err("bucket not found") ELSE
    IF serviceID \notin DOMAIN Bucket(d, "services") THEN Err("service not found") ELSE
    ServiceDecode(serviceID, Bucket(d, "services")[serviceID])

\* GetServiceException: the key is the service id followed by the date as
\* the wall clock of the instant handed in reads it.
GetServiceException(d, serviceID, wall) ==
    LET key == ServiceExceptionStoreKey(serviceID, wall) IN
    IF "serviceExceptions" \notin DOMAIN d THEN Err("bucket not found") ELSE
    IF key \notin DOMAIN Bucket(d, "serviceExceptions")
    THEN Err("service exception not found") ELSE
    ServiceExceptionDecode(Bucket(d, "serviceExceptions")[key])

---------------------------------------------------------------------------
(* Which trips are running at an instant.                                  *)

\* ExceptionType is a bool: Added is false, Removed is true.
AddedExceptionType == FALSE
RemovedExceptionType == TRUE

\* WeekdayFlag: Monday is bit 0, Sunday is bit 6.
MondayWeekdayFlag == 2 ^ 0
TuesdayWeekdayFlag == 2 ^ 1
SundayWeekdayFlag == 2 ^ 6

\* time.Weekday: Sunday is 0, Saturday is 6.
Sunday == 0
Saturday == 6

\* Time.Weekday of a wall clock reading: 1970-01-01 was a Thursday.
Weekday(wall) == (DayOf(wall) + 4) % 7

\* The time zones of the tz database the model knows: their names and their
\* offsets from UTC in seconds (none of them has daylight saving).
ZoneUTC == <<85, 84, 67>>
ZoneTokyo == <<65, 115, 105, 97, 47, 84, 111, 107, 121, 111>>
ZonePhoenix == <<65, 109, 101, 114, 105, 99, 97, 47, 80, 104, 111, 101, 110, 105, 120>>
ZoneOffsets == (<<>> :> 0) @@ (ZoneUTC :> 0) @@ (ZoneTokyo :> 9 * 3600)
               @@ (ZonePhoenix :> -(7 * 3600))

\* time.LoadLocation: "" and "UTC" are UTC, an unknown name is an error.
LoadLocation(name) ==
    IF name \in DOMAIN ZoneOffsets THEN Ok(ZoneOffsets[name])
    ELSE Err("unknown time zone")

\* Duration.Seconds converted to int: a duration is counted in half seconds
\* here, and the conversion truncates toward zero.
DurationSeconds(buffer) ==
    IF buffer >= 0 THEN buffer \div 2 ELSE -((-buffer) \div 2)

\* hasDay with the weekday's bit taken as 1 << day, Sunday first.
hasDaySundayFirst(flags, day) ==
    IF day < Sunday \/ day > Saturday THEN FALSE
    ELSE (flags \div (2 ^ day)) % 2 = 1

\* hasDay: whether the flags hold the weekday's bit, at (day + 6) % 7.
hasDay(flags, day) ==
    IF day < Sunday \/ day > Saturday THEN FALSE
    ELSE LET bitPos == (day + 6) % 7
         IN  (flags \div (2 ^ bitPos)) % 2 = 1

\* isTripWithinInterval without the window of the day before.
isTripWithinIntervalNoPreviousDay(tripStartTime, tripEndTime, tSeconds, bufferSeconds) ==
    LET normTripEnd == IF tripEndTime < tripStartTime
                       THEN tripEndTime + secondsInDay ELSE tripEndTime
    IN  \/ Max(tSeconds - bufferSeconds, tripStartTime)
              <= Min(tSeconds + bufferSeconds, normTripEnd)
        \/ Max(tSeconds - bufferSeconds, tripStartTime + secondsInDay)
              <= Min(tSeconds + bufferSeconds, normTripEnd + secondsInDay)

\* isTripWithinInterval: whether [tSeconds - buffer, tSeconds + buffer]
\* meets the trip's window, the window a day earlier or the window a day
\* later; an end before the start is taken to be on the next day.
isTripWithinInterval(tripStartTime, tripEndTime, tSeconds, bufferSeconds) ==
    LET normTripStart == tripStartTime
        normTripEnd == IF tripEndTime < tripStartTime
                       THEN tripEndTime + secondsInDay ELSE tripEndTime
        intervalStart == tSeconds - bufferSeconds
        intervalEnd == tSeconds + bufferSeconds
        overlapCurrent ==
            Max(intervalStart, normTripStart) <= Min(intervalEnd, normTripEnd)
        overlapPreviousDay ==
            Max(intervalStart, normTripStart - secondsInDay)
                <= Min(intervalEnd, normTripEnd - secondsInDay)
        overlapNextDay ==
            Max(intervalStart, normTripStart + secondsInDay)
                <= Min(intervalEnd, normTripEnd + secondsInDay)
    IN  overlapCurrent \/ overlapPreviousDay \/ overlapNextDay

\* The running decision of the TripArray version: exception is <<>> (nil,
\* also when the lookup failed) or <<e>>.
Running(service, exception, weekday) ==
    IF hasDay(service.Weekdays, weekday)
    THEN exception = <<>> \/ exception[1].Type # RemovedExceptionType
    ELSE exception # <<>> /\ exception[1].Type = AddedExceptionType

\* The running decision of the TripMap version: the exception before the
\* weekday, and StartDate.Before(t) and EndDate.After(t) on the instants.
RunningTripMap(service, exception, weekday, t) ==
    /\ IF exception # <<>> THEN exception[1].Type = AddedExceptionType
       ELSE hasDay(service.Weekdays, weekday)
    /\ service.StartDate < t
    /\ service.EndDate > t

\* The call of GetCurrentTripsWithBuffer in hand: the store file, the trips,
\* the instant, the agency's offset, the buffer in seconds and the version.
\* c = [d, trips, t, offset, bufferSeconds, tripMap].
TripWithin(c, trip) ==
    isTripWithinInterval(StartTime(trip) % secondsInDay,
                         EndTime(trip) % secondsInDay,
                         (c.t + c.offset) % secondsInDay, c.bufferSeconds)

\* The running decision for a service that is not in runningCache.
\* found is what GetServiceException returned; its error is dropped.
Decide(c, service, found) ==
    IF c.tripMap
    THEN RunningTripMap(service, IF found.ok THEN <<found.val>> ELSE <<>>,
                        Weekday(c.t + c.offset), c.t)
    ELSE Running(service, IF found.ok THEN <<found.val>> ELSE <<>>,
                 Weekday(c.t + c.offset))

RECURSIVE CurrentTripsLoop(_, _, _, _)
RECURSIVE CurrentTripsKeep(_, _, _, _, _)
RECURSIVE CurrentTripsDecide(_, _, _, _, _)

\* The loop of GetCurrentTripsWithBuffer from index i: cache is
\* runningCache and acc the trips kept so far.
CurrentTripsLoop(c, i, cache, acc) ==
    IF i > Len(c.trips) THEN [ok |-> TRUE, val |-> acc, running |-> cache]
    ELSE IF c.trips[i].ServiceID \in DOMAIN cache
    THEN CurrentTripsKeep(c, i, cache, acc, cache[c.trips[i].ServiceID])
    ELSE CurrentTripsDecide(c, i, cache, acc,
                            GetServiceByID(c.d, c.trips[i].ServiceID))

\* The service is not in the cache: its lookup may fail, else the decision
\* is taken and cached.
CurrentTripsDecide(c, i, cache, acc, service) ==
    IF ~service.ok THEN [ok |-> FALSE, err |-> service.err, running |-> cache]
    ELSE CurrentTripsKeep(c, i, cache, acc,
            Decide(c, service.val,
                   GetServiceException(c.d, c.trips[i].ServiceID, c.t + c.offset)))

\* The trip is kept if its service is running and it is within the
\* interval; the loop goes on.
CurrentTripsKeep(c, i, cache, acc, running) ==
    CurrentTripsLoop(c, i + 1,
        IF c.trips[i].ServiceID \in DOMAIN cache THEN cache
        ELSE cache @@ (c.trips[i].ServiceID :> running),
        IF running /\ TripWithin(c, c.trips[i]) THEN Append(acc, c.trips[i])
        ELSE acc)

\* The lookups a call of GetCurrentTripsWithBuffer has made when its loop
\* returns r: the route, the agency and the time zone, the service of the
\* first trip at least, and a service exception unless that service was
\* missing.
WithLookups(r) ==
    r @@ [lookups |->
             {"GetRouteByID", "GetAgencyByID", "LoadLocation", "GetServiceByID"}
             \cup (IF r.ok \/ DOMAIN r.running # {}
                   THEN {"GetServiceException"} ELSE {})]

\* GetCurrentTripsWithBuffer once the time zone has been looked up.
CurrentTripsInZone(d, trips, t, buffer, tripMap, timezone) ==
    IF ~timezone.ok
    THEN [ok |-> FALSE, err |-> timezone.err, running |-> <<>>,
          lookups |-> {"GetRouteByID", "GetAgencyByID", "LoadLocation"}]
    ELSE WithLookups(
             CurrentTripsLoop([d |-> d, trips |-> trips, t |-> t,
                               offset |-> timezone.val,
                               bufferSeconds |-> DurationSeconds(buffer),
                               tripMap |-> tripMap], 1, <<>>, <<>>))

\* GetCurrentTripsWithBuffer once the agency has been looked up.
CurrentTripsOfAgency(d, trips, t, buffer, tripMap, agency) ==
    IF ~agency.ok
    THEN [ok |-> FALSE, err |-> agency.err, running |-> <<>>,
          lookups |-> {"GetRouteByID", "GetAgencyByID"}]
    ELSE CurrentTripsInZone(d, trips, t, buffer, tripMap,
                            LoadLocation(agency.val.Timezone))

\* GetCurrentTripsWithBuffer once the route has been looked up.
CurrentTripsOfRoute(d, trips, t, buffer, tripMap, route) ==
    IF ~route.ok
    THEN [ok |-> FALSE, err |-> route.err, running |-> <<>>,
          lookups |-> {"GetRouteByID"}]
    ELSE CurrentTripsOfAgency(d, trips, t, buffer, tripMap,
                              GetAgencyByID(d, route.val.AgencyID))

\* GetCurrentTripsWithBuffer without its check of an empty list: the route
\* of no trip is looked up.
CurrentTripsWithBufferNoEmptyCheck(d, trips, first, t, buffer, tripMap) ==
    CurrentTripsOfRoute(d, trips, t, buffer, tripMap,
                        GetRouteByID(d, IF Len(trips) = 0 THEN <<>>
                                        ELSE trips[first].RouteID))

\* GetCurrentTripsWithBuffer: the trips of the list that run at t give or
\* take buffer, and the lookups made.  first is the trip whose route gives
\* the agency and so the time zone: trips[0] of the TripArray version, the
\* first trip an iteration of the map yields in the TripMap version.
CurrentTripsWithBuffer(d, trips, first, t, buffer, tripMap) ==
    IF Len(trips) = 0
    THEN [ok |-> TRUE, val |-> <<>>, running |-> <<>>, lookups |-> {}]
    ELSE CurrentTripsOfRoute(d, trips, t, buffer, tripMap,
                             GetRouteByID(d, trips[first].RouteID))

\* GetCurrentTripsWithBuffer of the TripArray version.
GetCurrentTripsWithBuffer(d, trips, t, buffer) ==
    CurrentTripsWithBuffer(d, trips, 1, t, buffer, FALSE)

\* GetCurrentTripsWithBuffer of the TripMap version: trips is the map in the
\* order the loop iterates it, first the index of the trip the first
\* iteration yielded.
GetCurrentTripsWithBufferTripMap(d, trips, first, t, buffer) ==
    CurrentTripsWithBuffer(d, trips, first, t, buffer, TRUE)

\* end.Sub(start) of two instants of whole seconds: a duration, in half
\* seconds.
Sub(end, start) == 2 * (end - start)

\* start.Add(d) for a start of whole seconds and d >= 0 in half seconds:
\* the instant, as its second and the half second past it.
Add(start, d) == [second |-> start + d \div 2, half |-> d % 2]

\* The second an instant falls in, which is all that Hour, Minute, Second,
\* Weekday and Format read of it.
SecondOf(instant) == instant.second

\* GetCurrentTripsBetween: the query at the middle of the range with half
\* its width as the buffer.
GetCurrentTripsBetween(d, trips, start, end) ==
    GetCurrentTripsWithBuffer(d, trips,
        SecondOf(Add(start, Sub(end, start) \div 2)), Sub(end, start) \div 2)

---------------------------------------------------------------------------
(* The metadata of a store file, and opening one.                          *)

RECURSIVE Itoa(_)
\* strconv.Itoa: the decimal digits of n, after a minus sign if n < 0.
Itoa(n) ==
    IF n < 0 THEN <<45>> \o Itoa(-n)
    ELSE IF n < 10 THEN <<Digit(n)>>
    ELSE Itoa(n \div 10) \o <<Digit(n % 10)>>

RECURSIVE DigitsValue(_)
\* The number a non-empty sequence of digits spells.
DigitsValue(s) ==
    IF Len(s) = 1 THEN s[1] - 48
    ELSE DigitsValue(SubSeq(s, 1, Len(s) - 1)) * 10 + (s[Len(s)] - 48)

\* strconv.Atoi, and strconv.ParseInt in base 10: an optional sign and then
\* one digit or more, anything else is a syntax error.  (The strings of the
\* model are too short to be out of range.)
Atoi(s) ==
    LET signed == Len(s) > 0 /\ s[1] \in {43, 45}
        digits == IF signed THEN Tail(s) ELSE s
    IN  IF Len(digits) = 0 \/ \E i \in DOMAIN digits : digits[i] \notin 48..57
        THEN Err("invalid syntax")
        ELSE Ok(IF signed /\ s[1] = 45 THEN -DigitsValue(digits)
                ELSE DigitsValue(digits))

\* The GTFS value before any load: the zero value of the struct.
ZeroGTFS == [Version |-> 0, Created |-> 0, db |-> "nil"]

\* The end of initDB: the error of Populate is returned, else the metadata
\* is written in a transaction of its own.
SaveMetadata(populated, env) ==
    IF populated.err THEN [db |-> populated.db, err |-> TRUE] ELSE
    IF "metadata" \in env.failing THEN [db |-> populated.db, err |-> TRUE] ELSE
    [db |-> WithBucket(populated.db, "metadata",
               PutAll(CreateBucketIfNotExists(populated.db, "metadata"),
                      ("version" :> Itoa(CurrentVersion))
                      @@ ("created" :> Itoa(env.now)))),
     err |-> FALSE]

\* initDB: opens (creates) the file, populates it and then writes the
\* metadata.  env.openFails: bolt.Open fails; env.failing: the transactions
\* that fail; env.now: time.Now().Unix().
initDB(d, newFeed, env) ==
    IF env.openFails THEN [db |-> d, err |-> TRUE]
    ELSE SaveMetadata(Populate(d, newFeed, env), env)

\* The version check of FromDB with the versions above CurrentVersion let in.
VersionMismatchOlderOnly(versionInt) == versionInt < CurrentVersion

\* The version check of FromDB.
VersionMismatch(versionInt) == versionInt # CurrentVersion

\* FromDB on the GTFS value gv and the file d: the value afterwards and the
\* error returned ("nil" for none).  The handle is stored in g.db as soon as
\* the file is open, before the metadata is read; Version and Created are
\* set once all of the metadata has been accepted.
FromDB(gv, d, openFails) ==
    IF openFails THEN [g |-> gv, err |-> "open failed"] ELSE
    LET opened == [gv EXCEPT !.db = "open"] IN
    IF "metadata" \notin DOMAIN d
    THEN [g |-> opened, err |-> "metadata bucket not found"] ELSE
    LET b == Bucket(d, "metadata") IN
    IF "version" \notin DOMAIN b
    THEN [g |-> opened, err |-> "version not found in metadata"] ELSE
    LET versionInt == Atoi(b["version"]) IN
    IF ~versionInt.ok THEN [g |-> opened, err |-> versionInt.err] ELSE
    IF VersionMismatch(versionInt.val)
    THEN [g |-> opened, err |-> "GTFS database version mismatch"] ELSE
    IF "created" \notin DOMAIN b
    THEN [g |-> opened, err |-> "created timestamp not found in metadata"] ELSE
    LET createdInt == Atoi(b["created"]) IN
    IF ~createdInt.ok THEN [g |-> opened, err |-> createdInt.err] ELSE
    [g |-> [opened EXCEPT !.Version = versionInt.val, !.Created = createdInt.val],
     err |-> "nil"]

\* Close: nothing without a handle, else the handle is closed.
Close(gv) == IF gv.db = "nil" THEN gv ELSE [gv EXCEPT !.db = "closed"]

---------------------------------------------------------------------------
(* The scheduling query on a store file ingested from a small feed: one    *)
(* agency, one route, one service with or without an exception, and trips  *)
(* of that service.                                                        *)

\* The days from 1970-01-01 to a civil date, and the instant of its
\* midnight in UTC, which is what time.ParseInLocation("20060102", s,
\* time.UTC) gives the parsers.
DaysFromCivil(y, m, dd) ==
    LET yy == IF m <= 2 THEN y - 1 ELSE y
        era == yy \div 400
        yoe == yy - era * 400
        mp == (m + 9) % 12
        doy == (153 * mp + 2) \div 5 + dd - 1
        doe == yoe * 365 + yoe \div 4 - yoe \div 100 + doy
    IN  era * 146097 + doe - 719468
DateUTC(y, m, dd) == DaysFromCivil(y, m, dd) * secondsInDay

\* Monday 2025-01-06 and the days around it.
Monday1 == DateUTC(2025, 1, 6)
Tuesday1 == DateUTC(2025, 1, 7)
Sunday1 == DateUTC(2025, 1, 12)
Monday2 == DateUTC(2025, 1, 13)

\* The most trips handed to one query.
MaxQueryTrips == 2

IngestIdle ==
    /\ pc = <<>>
    /\ errChannel = <<>>
    /\ completion = <<>>
    /\ parsed = <<>>
    /\ wg = 0
    /\ ret = "idle"

NoCall == [op |-> "none"]

SchedAgency(tz) ==
    [ID |-> <<97>>, Name |-> <<84>>, URL |-> <<>>, Timezone |-> tz]
SchedRoute ==
    [ID |-> <<114>>, AgencyID |-> <<97>>, Name |-> <<57>>, Type |-> 3,
     Colour |-> <<>>, InboundShapeID |-> <<>>, OutboundShapeID |-> <<>>,
     Stops |-> <<>>]
SchedService(w, range) ==
    [ID |-> <<118>>, Weekdays |-> w, StartDate |-> range[1], EndDate |-> range[2]]
SchedTrip(id, arrival, departure) ==
    [ID |-> id, RouteID |-> <<114>>, ServiceID |-> <<118>>, ShapeID |-> <<>>,
     Direction |-> FALSE, Headsign |-> <<>>,
     Stops |-> <<[StopID |-> <<49>>, ArrivalTime |-> arrival,
                  DepartureTime |-> arrival, Timepoint |-> TRUE],
                 [StopID |-> <<50>>, ArrivalTime |-> departure,
                  DepartureTime |-> departure, Timepoint |-> TRUE]>>]

\* A trip from 23:50 to 00:05 of the next day, one from 08:00 to 09:00 and
\* one from 24:05 to 25:00, that is, wholly on the next day.
TripLate == SchedTrip(<<108>>, 85800, 86700)
TripDay == SchedTrip(<<100>>, 28800, 32400)
TripNext == SchedTrip(<<110>>, 86700, 90000)
SchedTrips == {TripLate, TripDay, TripNext}

SchedZones == {ZoneUTC, ZoneTokyo, ZonePhoenix, <<88>>}
SchedWeekdays == {MondayWeekdayFlag, TuesdayWeekdayFlag, SundayWeekdayFlag, 0}
SchedRanges == {<<Monday1, Monday2>>, <<Tuesday1, Sunday1>>}
SchedExceptions ==
    {<<>>} \cup {<<[ServiceID |-> <<118>>, Date |-> dt, Type |-> ty]>>
                 : dt \in {Monday1, Tuesday1}, ty \in BOOLEAN}

\* The feed with the given agency time zone, service and exception.
SchedFeed(tz, w, range, exc) ==
    [agencies |-> (<<97>> :> SchedAgency(tz)),
     routes |-> (<<114>> :> SchedRoute),
     services |-> (<<118>> :> SchedService(w, range)),
     serviceExceptions |->
        [k \in {<<exc[i].ServiceID, exc[i].Date>> : i \in DOMAIN exc} |->
            CHOOSE e \in {exc[i] : i \in DOMAIN exc} :
                <<e.ServiceID, e.Date>> = k],
     shapes |-> <<>>,
     stops |-> <<>>,
     trips |-> [id \in {t.ID : t \in SchedTrips} |->
                  CHOOSE t \in SchedTrips : t.ID = id]]

\* An ingest in which nothing fails, the maps iterated in some order.
QuietEnv(newFeed) ==
    [openFails |-> FALSE, failing |-> {}, now |-> Monday1,
     routeOrder |-> CHOOSE o \in Orders(DOMAIN newFeed.routes) : TRUE,
     stopOrder |-> CHOOSE o \in Orders(DOMAIN newFeed.stops) : TRUE,
     tripOrder |-> CHOOSE o \in Orders(DOMAIN newFeed.trips) : TRUE]

\* The lists of different trips of the feed, MaxQueryTrips long at most.
TripLists ==
    {l \in SeqsUpTo(SchedTrips, MaxQueryTrips) :
        \A i, j \in DOMAIN l : i # j => l[i] # l[j]}

\* The instants of the queries: times of the day on the days around the
\* service's range, among them 00:02 in each of the zones.
QueryInstants ==
    {day + tod : day \in {Monday1, Tuesday1, Sunday1, Monday2},
                 tod \in {0, 120, 7 * 3600 + 120, 30000, 15 * 3600 + 120, 86000}}

\* The buffers, in half seconds: none, half a second, ten minutes.
QueryBuffers == {0, 1, 1200}

SchedInit ==
    /\ CodecIdle
    /\ IngestIdle
    /\ \E tz \in SchedZones, w \in SchedWeekdays, range \in SchedRanges,
          exc \in SchedExceptions :
          feed = SchedFeed(tz, w, range, exc)
    /\ db = initDB(EmptyDB, feed, QuietEnv(feed)).db
    /\ g = FromDB(ZeroGTFS, db, FALSE).g
    /\ lErr = NoCall
    /\ query = NoCall
    /\ answer = NoCall

\* A call of GetCurrentTripsWithBuffer of the TripArray version.
SchedQueryTripArray ==
    /\ query = NoCall
    /\ g.db = "open"
    /\ \E trips \in TripLists, t \in QueryInstants, buffer \in QueryBuffers :
          /\ query' = [op |-> "TripArray", trips |-> trips, first |-> 1,
                       t |-> t, buffer |-> buffer]
          /\ answer' = GetCurrentTripsWithBuffer(db, trips, t, buffer)
    /\ UNCHANGED <<codecVars, loadVars, feed, ingestVars>>

\* A call of GetCurrentTripsWithBuffer of the TripMap version.
SchedQueryTripMap ==
    /\ query = NoCall
    /\ g.db = "open"
    /\ \E trips \in TripLists, t \in QueryInstants, buffer \in QueryBuffers :
       \E first \in (IF trips = <<>> THEN {1} ELSE DOMAIN trips) :
          /\ query' = [op |-> "TripMap", trips |-> trips, first |-> first,
                       t |-> t, buffer |-> buffer]
          /\ answer' = GetCurrentTripsWithBufferTripMap(db, trips, first, t, buffer)
    /\ UNCHANGED <<codecVars, loadVars, feed, ingestVars>>

SchedNext == SchedQueryTripArray \/ SchedQueryTripMap

SpecSched == SchedInit /\ [][SchedNext]_vars

---------------------------------------------------------------------------
(* What the scheduling contract says, in terms of the feed.                *)

Elems(seq) == {seq[i] : i \in DOMAIN seq}

\* The wall clock of the query in the agency's zone, and the midnight (as
\* the parsers write dates) of its date.
QueryWall == query.t + ZoneOffsets[feed.agencies[<<97>>].Timezone]
QueryDate == DayOf(QueryWall) * secondsInDay

\* The weekday flag of a date: Monday first, Sunday last.
FlagOfDate(date) ==
    LET mondayBased == (DayOf(date) + 3) % 7
    IN  <<MondayWeekdayFlag, TuesdayWeekdayFlag, 4, 8, 16, 32,
          SundayWeekdayFlag>>[mondayBased + 1]
FlagSet(flags, flag) == (flags \div flag) % 2 = 1

\* The exceptions of the feed for a service on a date.
ExceptionsOn(serviceID, date) ==
    {e \in {feed.serviceExceptions[k] : k \in DOMAIN feed.serviceExceptions} :
        e.ServiceID = serviceID /\ e.Date = date}

\* The decision by exception and weekly pattern alone.
PatternDecision(serviceID, date) ==
    IF \E e \in ExceptionsOn(serviceID, date) : e.Type = RemovedExceptionType
    THEN FALSE
    ELSE IF \E e \in ExceptionsOn(serviceID, date) : e.Type = AddedExceptionType
    THEN TRUE
    ELSE FlagSet(feed.services[serviceID].Weekdays, FlagOfDate(date))

\* Whether the date is in the service's range, both ends included.
InRange(serviceID, date) ==
    /\ feed.services[serviceID].StartDate <= date
    /\ date <= feed.services[serviceID].EndDate

\* Whether the service runs on the date: the exceptions decide, else the
\* weekly pattern within the range.
RunsOn(serviceID, date) ==
    IF ExceptionsOn(serviceID, date) # {}
    THEN PatternDecision(serviceID, date)
    ELSE PatternDecision(serviceID, date) /\ InRange(serviceID, date)

\* Whether the trip, started on the date, is under way at some instant of
\* the query's interval.
OperatesOn(trip, date) ==
    LET rel == QueryWall - date
    IN  /\ 2 * StartTime(trip) <= 2 * rel + query.buffer
        /\ 2 * EndTime(trip) >= 2 * rel - query.buffer

Answered == query # NoCall /\ answer # NoCall

\* C1: a trip from 23:50 to 00:05 of a Monday-only service (date in range,
\* no exceptions) is returned by a query at 00:02 of the Tuesday, agency
\* time, with buffer 0.
C1_MidnightCrossingTripReturned ==
    ( /\ Answered
      /\ feed.services[<<118>>].Weekdays = MondayWeekdayFlag
      /\ feed.services[<<118>>].StartDate = Monday1
      /\ feed.services[<<118>>].EndDate = Monday2
      /\ feed.serviceExceptions = <<>>
      /\ feed.agencies[<<97>>].Timezone \in DOMAIN ZoneOffsets
      /\ QueryWall = Tuesday1 + 120
      /\ query.buffer = 0
      /\ TripLate \in Elems(query.trips) )
    => (answer.ok /\ TripLate \in Elems(answer.val))

\* C2: every trip returned operates within [t - b, t + b]: its service runs
\* on some day from which the trip's window meets the interval.
C2_ReturnedTripsOperate ==
    (Answered /\ answer.ok) =>
        \A trip \in Elems(answer.val) :
            \E k \in -2..1 :
                LET date == QueryDate + k * secondsInDay
                IN  RunsOn(trip.ServiceID, date) /\ OperatesOn(trip, date)

C4_RunningIffInRange ==
    Answered =>
        \A sid \in DOMAIN answer.running :
            ( /\ FlagSet(feed.services[sid].Weekdays, FlagOfDate(QueryDate))
              /\ ExceptionsOn(sid, QueryDate) = {} )
            => (answer.running[sid] = InRange(sid, QueryDate))

---------------------------------------------------------------------------
(* The codec on its own.                                                   *)

LoadIdle ==
    /\ db = EmptyDB
    /\ g = ZeroGTFS
    /\ lErr = NoCall

SchedIdle ==
    /\ feed = <<>>
    /\ query = NoCall
    /\ answer = NoCall

CodecNext == CodecRoundTrip \/ CodecTruncate \/ CodecAppend

CodecSpecInit == CodecInit /\ LoadIdle /\ SchedIdle /\ IngestIdle

SpecCodec == CodecSpecInit /\ [][CodecNext]_vars

\* C5: decoding the bytes e.Encode() produced, under e's key, succeeds and
\* yields an entity equal to e field by field.
C5_RoundTrip ==
    cOp = "roundtrip" => (cResult.ok /\ cResult.val = cEntity.val)

\* C6: Decode returns an error on every strict prefix of an encoded payload
\* and on the payload followed by extra bytes.
C6_CorruptionDetected ==
    cOp \in {"truncate", "append"} => ~cResult.ok

\* A route's payload with bytes appended, which Decode rejected.
C6_Witness ==
    /\ cOp = "append"
    /\ cEntity.kind = "Route"
    /\ Len(cPayload) > Len(EncodeEntity(cEntity))
    /\ ~cResult.ok

---------------------------------------------------------------------------
(* Loading store files: the files an ingest leaves behind, some of whose   *)
(* transactions failed, with the metadata of this or another version of    *)
(* the code, or with metadata that is damaged.                             *)

\* The highest schema version a file of the model was written with.
MaxVersion == 3

\* The feed of the files, and the transactions that failed while a file was
\* written.
LoadFeed == SchedFeed(ZoneUTC, MondayWeekdayFlag, <<Monday1, Monday2>>, <<>>)
LoadFailing == {{}, {"routes"}, {"trips"}, {"shapes", "stops"},
                {"services", "serviceExceptions"}, {"metadata"}}

\* The values of a metadata key: absent (<<>>), or <<bytes>>.
VersionValues ==
    {<<>>} \cup {<<Itoa(v)>> : v \in 0..MaxVersion}
    \cup {<<<<>>>>, <<<<48, 50>>>>, <<<<43, 50>>>>, <<<<45, 50>>>>,
          <<<<118, 50>>>>, <<<<50, 46, 48>>>>}
CreatedValues == {<<>>, <<Itoa(Monday1)>>, <<<<110, 111, 119>>>>}

\* The file d with the metadata keys set to the values, where it has the
\* bucket.
WithMetadata(d, version, created) ==
    IF "metadata" \notin DOMAIN d THEN d
    ELSE WithBucket(d, "metadata",
            [k \in (IF version = <<>> THEN {} ELSE {"version"})
                   \cup (IF created = <<>> THEN {} ELSE {"created"}) |->
                IF k = "version" THEN version[1] ELSE created[1]])

LoadFiles ==
    {WithMetadata(initDB(EmptyDB, LoadFeed,
                         [QuietEnv(LoadFeed) EXCEPT !.failing = failing]).db,
                  version, created)
     : failing \in LoadFailing, version \in VersionValues,
       created \in CreatedValues}

\* The buckets every complete store file holds.
RequiredBuckets ==
    {"agencies", "routes", "routesByNameIndex", "services",
     "serviceExceptions", "shapes", "stops", "stopsByNameIndex", "trips",
     "tripsByRouteIndex"}

LoadInit ==
    /\ CodecIdle /\ SchedIdle /\ IngestIdle
    /\ db \in LoadFiles
    /\ g = ZeroGTFS
    /\ lErr = NoCall

\* g.FromDB(dbFile); bolt.Open may fail.
LoadFromDB ==
    /\ \E openFails \in BOOLEAN :
       \E r \in {FromDB(g, db, openFails)} :
          /\ g' = r.g
          /\ lErr' = [op |-> "FromDB", err |-> r.err, before |-> g]
    /\ UNCHANGED <<db, codecVars, schedVars, ingestVars>>

\* g.Close().
LoadClose ==
    /\ g' = Close(g)
    /\ lErr' = [op |-> "Close", err |-> "nil", before |-> g]
    /\ UNCHANGED <<db, codecVars, schedVars, ingestVars>>

\* g.GetAgencyByID: without a handle the call dereferences nil, on a closed
\* handle View fails.
LoadGetAgencyByID ==
    /\ lErr' = [op |-> "GetAgencyByID",
                err |-> IF g.db = "nil" THEN "panic"
                        ELSE IF g.db = "closed" THEN "database not open"
                        ELSE LET r == GetAgencyByID(db, <<97>>)
                             IN  IF r.ok THEN "nil" ELSE r.err,
                before |-> g]
    /\ UNCHANGED <<db, g, codecVars, schedVars, ingestVars>>

LoadNext == LoadFromDB \/ LoadClose \/ LoadGetAgencyByID

SpecLoad == LoadInit /\ [][LoadNext]_vars

\* Whether the file's metadata spells the version of the running code.
HasCurrentVersion(d) ==
    /\ "metadata" \in DOMAIN d
    /\ "version" \in DOMAIN d["metadata"]
    /\ Atoi(d["metadata"]["version"]).ok
    /\ Atoi(d["metadata"]["version"]).val = CurrentVersion

\* C7: FromDB returns an error for every store file whose metadata version
\* differs from CurrentVersion, and leaves the file as it is (no migration).
C7_VersionGate ==
    [][(lErr'.op = "FromDB" /\ ~HasCurrentVersion(db))
          => (lErr'.err # "nil" /\ db' = db)]_vars

\* A file written with version 3, opened and rejected.
C7_Witness ==
    /\ lErr.op = "FromDB"
    /\ "metadata" \in DOMAIN db
    /\ "version" \in DOMAIN db["metadata"]
    /\ db["metadata"]["version"] = Itoa(CurrentVersion + 1)
    /\ g.db = "open"
    /\ lErr.err = "GTFS database version mismatch"

\* C8: when FromDB returns an error the GTFS value is as it was before the
\* call: no handle it did not hold before, Version and Created unchanged.
C8_NoPartialInitialization ==
    (lErr.op = "FromDB" /\ lErr.err # "nil") => g = lErr.before

\* C9: FromDB fails on a file from which a required bucket is missing.
C9_MissingBucketFailsLoad ==
    (lErr.op = "FromDB" /\ RequiredBuckets \ DOMAIN db # {})
        => lErr.err # "nil"

---------------------------------------------------------------------------
(* FromURL: the parse goroutines, the goroutine that collects their        *)
(* results from the completion channel, and the calling goroutine.         *)

OutboundTripDirection == FALSE
InboundTripDirection == TRUE

\* The trips of a route in a direction, by shape id.
ShapesCounts(tripMap, routeID, direction) ==
    LET trips == {id \in DOMAIN tripMap :
                     /\ tripMap[id].RouteID = routeID
                     /\ tripMap[id].Direction = direction}
    IN  [shapeID \in {tripMap[id].ShapeID : id \in trips} |->
            {id \in trips : tripMap[id].ShapeID = shapeID}]

\* The shape ids the scan for the most common one can end with: "" without
\* any, else one with the most trips (the first such that the iteration of
\* the map meets).
MostCommonShapeIDs(counts) ==
    IF DOMAIN counts = {} THEN {<<>>}
    ELSE {shapeID \in DOMAIN counts :
             \A other \in DOMAIN counts :
                 Cardinality(counts[other]) <= Cardinality(counts[shapeID])}

\* The stop ids of the trips counted for a shape id, none for "".
StopIDsOf(tripMap, counts, shapeID) ==
    IF shapeID = <<>> THEN {}
    ELSE UNION {{tripMap[id].Stops[i].StopID : i \in DOMAIN tripMap[id].Stops}
                : id \in counts[shapeID]}

\* What getRouteShapeAndStops can return for a route: pointers to the two
\* most common shape ids (never nil) and the stops in any order.
RouteShapeAndStops(tripMap, routeID) ==
    LET inbound == ShapesCounts(tripMap, routeID, InboundTripDirection)
        outbound == ShapesCounts(tripMap, routeID, OutboundTripDirection)
    IN  {[inboundShapeID |-> <<i>>, outboundShapeID |-> <<o>>, stopIDs |-> st]
         : i \in MostCommonShapeIDs(inbound),
           o \in MostCommonShapeIDs(outbound),
           st \in UNION {Orders(StopIDsOf(tripMap, inbound, ii)
                                \cup StopIDsOf(tripMap, outbound, oo))
                         : ii \in MostCommonShapeIDs(inbound),
                           oo \in MostCommonShapeIDs(outbound)}}

\* getRouteShapeAndStops: the maps it can return, one entry per route id of
\* the trips.
getRouteShapeAndStops(tripMap) ==
    LET routeIDs == {tripMap[id].RouteID : id \in DOMAIN tripMap}
    IN  {f \in [routeIDs -> UNION {RouteShapeAndStops(tripMap, r) : r \in routeIDs}] :
            \A r \in routeIDs :
                /\ f[r] \in RouteShapeAndStops(tripMap, r)
                /\ Elems(f[r].stopIDs) =
                       StopIDsOf(tripMap, ShapesCounts(tripMap, r, InboundTripDirection),
                                 f[r].inboundShapeID[1])
                       \cup StopIDsOf(tripMap, ShapesCounts(tripMap, r, OutboundTripDirection),
                                      f[r].outboundShapeID[1])}

\* The routes after FromURL has copied the shapes and stops into them.
WithShapeAndStops(routes, shapeAndStops) ==
    [routeID \in DOMAIN routes |->
        IF routeID \in DOMAIN shapeAndStops
        THEN [routes[routeID] EXCEPT
                 !.InboundShapeID = shapeAndStops[routeID].inboundShapeID,
                 !.OutboundShapeID = shapeAndStops[routeID].outboundShapeID,
                 !.Stops = shapeAndStops[routeID].stopIDs]
        ELSE routes[routeID]]

\* The parse goroutines, named after the variable each one fills; those of
\* calendar_dates.txt and shapes.txt return at once without their file.
Tasks == {"agencies", "routes", "services", "serviceExceptions", "shapes",
          "stops", "trips"}
OptionalTasks == {"serviceExceptions", "shapes"}
SharedVariables == Tasks \cup {"maxShapeLength"}

\* The capacity of errChannel.
errChannelCapacity == 1

\* The non-blocking send on a channel without a buffer and without a
\* receiver: the default case is taken and the error is dropped.
errChannelSendUnbuffered(ch, e) == ch

\* select { case errChannel <- loadErr: default: }: the error is buffered
\* if there is room and dropped otherwise.
errChannelSend(ch, e) ==
    IF Len(ch) < errChannelCapacity THEN Append(ch, e) ELSE ch

\* The feed the calling goroutine finds in the shared variables: a variable
\* no parser has filled is a nil map.
ParsedFeed(zip, shared) ==
    [k \in DOMAIN zip |-> IF shared[k] = "parsed" THEN zip[k] ELSE <<>>]

IngestInit ==
    /\ CodecIdle
    /\ db = EmptyDB
    /\ g = ZeroGTFS
    /\ lErr = NoCall
    /\ feed = LoadFeed
    /\ query = NoCall
    /\ answer = NoCall
    /\ pc = [p \in Tasks \cup {"collector", "main"} |->
                IF p = "main" THEN "start" ELSE "unborn"]
    /\ errChannel = <<>>
    /\ completion = [closed |-> FALSE, held |-> <<>>]
    /\ parsed = [v \in SharedVariables |-> "nil"]
    /\ wg = 0
    /\ ret = [state |-> "running", err |-> "nil", initDB |-> FALSE]

\* The download, the unzip and the check for the required files fail, and
\* FromURL returns before it has started a goroutine.
MainDownloadFails ==
    /\ pc["main"] = "start"
    /\ pc' = [pc EXCEPT !["main"] = "done"]
    /\ ret' = [ret EXCEPT !.state = "returned", !.err = "download"]
    /\ UNCHANGED <<codecVars, loadVars, schedVars, errChannel, completion,
                   parsed, wg>>

\* The collector and the seven parse goroutines are started, each after
\* wg.Add(1), and the caller reaches wg.Wait().
MainStart ==
    /\ pc["main"] = "start"
    /\ pc' = [p \in DOMAIN pc |->
                 IF p = "main" THEN "wait"
                 ELSE IF p = "collector" THEN "recv" ELSE "parse"]
    /\ wg' = Cardinality(Tasks)
    /\ UNCHANGED <<codecVars, loadVars, schedVars, errChannel, completion,
                   parsed, ret>>

\* The goroutine of an optional file that returns without wg.Done().
TaskSkipWithoutDone(task) ==
    /\ pc[task] = "parse"
    /\ task \in OptionalTasks
    /\ pc' = [pc EXCEPT ![task] = "done"]
    /\ UNCHANGED <<codecVars, loadVars, schedVars, errChannel, completion,
                   parsed, wg, ret>>

\* An optional file is not in the archive: the goroutine returns.
TaskSkip(task) ==
    /\ pc[task] = "parse"
    /\ task \in OptionalTasks
    /\ pc' = [pc EXCEPT ![task] = "done"]
    /\ wg' = wg - 1
    /\ UNCHANGED <<codecVars, loadVars, schedVars, errChannel, completion,
                   parsed, ret>>

\* The parser returns and its results are assigned to the shared variables
\* (shapes.txt gives two); with an error the map is nil.
TaskParse(task) ==
    /\ pc[task] = "parse"
    /\ \E ok \in BOOLEAN :
          /\ parsed' = [v \in SharedVariables |->
                           IF v = task \/ (task = "shapes" /\ v = "maxShapeLength")
                           THEN (IF ok THEN "parsed" ELSE "nil")
                           ELSE parsed[v]]
          /\ pc' = [pc EXCEPT ![task] = IF ok THEN "send" ELSE "report"]
    /\ UNCHANGED <<codecVars, loadVars, schedVars, errChannel, completion,
                   wg, ret>>

\* The parser failed: the non-blocking send on errChannel, and the return.
TaskReport(task) ==
    /\ pc[task] = "report"
    /\ errChannel' = errChannelSend(errChannel, task)
    /\ pc' = [pc EXCEPT ![task] = "failed"]
    /\ wg' = wg - 1
    /\ UNCHANGED <<codecVars, loadVars, schedVars, completion, parsed, ret>>

\* completion <- result: the collector takes the value; the shapes
\* goroutine then sends maxShapeLength as well, the others return.
TaskSend(task) ==
    /\ pc[task] \in {"send", "send2"}
    /\ pc["collector"] = "recv"
    /\ ~completion.closed
    /\ completion' = [completion EXCEPT
                         !.held = <<IF pc[task] = "send2" THEN "maxShapeLength"
                                    ELSE task>>]
    /\ LET more == task = "shapes" /\ pc[task] = "send"
       IN  /\ pc' = [pc EXCEPT ![task] = IF more THEN "send2" ELSE "done",
                               !["collector"] = "assign"]
           /\ wg' = IF more THEN wg ELSE wg - 1
    /\ UNCHANGED <<codecVars, loadVars, schedVars, errChannel, parsed, ret>>

\* The collector assigns the value it received to the shared variable.
CollectorAssign ==
    /\ pc["collector"] = "assign"
    /\ parsed' = [parsed EXCEPT ![completion.held[1]] = "parsed"]
    /\ completion' = [completion EXCEPT !.held = <<>>]
    /\ pc' = [pc EXCEPT !["collector"] = "recv"]
    /\ UNCHANGED <<codecVars, loadVars, schedVars, errChannel, wg, ret>>

\* The collector finds completion closed and returns.
CollectorExit ==
    /\ pc["collector"] = "recv"
    /\ completion.closed
    /\ pc' = [pc EXCEPT !["collector"] = "done"]
    /\ UNCHANGED <<codecVars, loadVars, schedVars, errChannel, completion,
                   parsed, wg, ret>>

\* wg.Wait() returns and the caller closes completion.
MainWait ==
    /\ pc["main"] = "wait"
    /\ wg = 0
    /\ completion' = [completion EXCEPT !.closed = TRUE]
    /\ pc' = [pc EXCEPT !["main"] = "select"]
    /\ UNCHANGED <<codecVars, loadVars, schedVars, errChannel, parsed, wg, ret>>

\* The select on errChannel: a buffered error is returned, and without one
\* the caller goes on.
MainSelect ==
    /\ pc["main"] = "select"
    /\ IF errChannel # <<>>
       THEN /\ ret' = [ret EXCEPT !.state = "returned", !.err = Head(errChannel)]
            /\ errChannel' = Tail(errChannel)
            /\ pc' = [pc EXCEPT !["main"] = "done"]
       ELSE /\ pc' = [pc EXCEPT !["main"] = "initDB"]
            /\ UNCHANGED <<ret, errChannel>>
    /\ UNCHANGED <<codecVars, loadVars, schedVars, completion, parsed, wg>>

\* initDB has returned r: its error is returned, else FromDB is next.
MainAfterInitDB(r) ==
    /\ db' = r.db
    /\ ret' = [state |-> IF r.err THEN "returned" ELSE "running",
               err |-> IF r.err THEN "initDB" ELSE "nil",
               initDB |-> TRUE]
    /\ pc' = [pc EXCEPT !["main"] = IF r.err THEN "done" ELSE "FromDB"]

\* initDB on the feed found in the shared variables, with the shapes and
\* stops copied into its routes.
MainCallInitDB(found, shapeAndStops, failing) ==
    MainAfterInitDB(
        initDB(db, [found EXCEPT
                       !.routes = WithShapeAndStops(found.routes, shapeAndStops)],
               [QuietEnv(found) EXCEPT !.failing = failing]))

\* The shapes and stops of the routes are worked out and initDB is called
\* on what the shared variables hold.
MainInitDB ==
    /\ pc["main"] = "initDB"
    /\ \E found \in {ParsedFeed(feed, parsed)} :
       \E shapeAndStops \in getRouteShapeAndStops(found.trips),
          failing \in {{}, {"agencies"}, {"trips"}} :
          MainCallInitDB(found, shapeAndStops, failing)
    /\ UNCHANGED <<codecVars, g, lErr, schedVars, errChannel, completion,
                   parsed, wg>>

\* return g.FromDB(dbFile).
MainFromDB ==
    /\ pc["main"] = "FromDB"
    /\ \E r \in {FromDB(g, db, FALSE)} :
          /\ g' = r.g
          /\ lErr' = [op |-> "FromDB", err |-> r.err, before |-> g]
          /\ ret' = [ret EXCEPT !.state = "returned", !.err = r.err]
    /\ pc' = [pc EXCEPT !["main"] = "done"]
    /\ UNCHANGED <<codecVars, db, schedVars, errChannel, completion,
                   parsed, wg>>

IngestNext ==
    \/ MainDownloadFails
    \/ MainStart
    \/ \E task \in Tasks : TaskSkip(task)
    \/ \E task \in Tasks : TaskParse(task)
    \/ \E task \in Tasks : TaskReport(task)
    \/ \E task \in Tasks : TaskSend(task)
    \/ CollectorAssign
    \/ CollectorExit
    \/ MainWait
    \/ MainSelect
    \/ MainInitDB
    \/ MainFromDB

SpecIngest == IngestInit /\ [][IngestNext]_vars

\* The parse goroutines whose parser has returned an error.
FailedTasks == {task \in Tasks : pc[task] \in {"report", "failed"}}

\* C10: once a parse task has returned an error, FromURL does not call
\* initDB, the store file stays as it was, and what FromURL returns is an
\* error (that of a failed task), whatever the order and the number of the
\* failures.
C10_ParseErrorFailsIngest ==
    FailedTasks # {} =>
        /\ ~ret.initDB
        /\ db = EmptyDB
        /\ pc["main"] \notin {"initDB", "FromDB"}
        /\ ret.state = "returned" => ret.err \in FailedTasks

\* FromURL has returned the error of one of two failed tasks, the trips
\* having been parsed and collected.
C10_Witness ==
    /\ ret.state = "returned"
    /\ Cardinality(FailedTasks) >= 2
    /\ ret.err \in FailedTasks
    /\ parsed["trips"] = "parsed"
    /\ pc["trips"] = "done"
    /\ ~ret.initDB

---------------------------------------------------------------------------
(* The other queries of a store file.                                      *)

\* GetStopByID.
GetStopByID(d, stopID) ==
    IF "stops" \notin DOMAIN d THEN Err("bucket not found") ELSE
    IF stopID \notin DOMAIN Bucket(d, "stops") THEN Err("stop not found") ELSE
    StopDecode(stopID, Bucket(d, "stops")[stopID])

\* GetTripByID.
GetTripByID(d, tripID) ==
    IF "trips" \notin DOMAIN d THEN Err("bucket not found") ELSE
    IF tripID \notin DOMAIN Bucket(d, "trips") THEN Err("trip not found") ELSE
    TripDecode(tripID, Bucket(d, "trips")[tripID])

\* GetRouteByName: the id the name index holds, then GetRouteByID.
GetRouteByName(d, routeName) ==
    IF "routesByNameIndex" \notin DOMAIN d THEN Err("bucket not found") ELSE
    IF routeName \notin DOMAIN Bucket(d, "routesByNameIndex")
    THEN Err("route not found") ELSE
    GetRouteByID(d, Bucket(d, "routesByNameIndex")[routeName])

\* GetStopByName: the id the name index holds, then GetStopByID.
GetStopByName(d, stopName) ==
    IF "stopsByNameIndex" \notin DOMAIN d THEN Err("bucket not found") ELSE
    IF stopName \notin DOMAIN Bucket(d, "stopsByNameIndex")
    THEN Err("stop not found") ELSE
    GetStopByID(d, Bucket(d, "stopsByNameIndex")[stopName])

\* What the second transaction of GetTripsByRouteID does with trip id
\* tripID: nothing wrong ("nil"), or the error it returns.
TripLoadError(b, tripID) ==
    IF tripID \notin DOMAIN b THEN "trip not found"
    ELSE IF TripDecode(tripID, b[tripID]).ok THEN "nil"
    ELSE TripDecode(tripID, b[tripID]).err

\* The second transaction of GetTripsByRouteID: the trips of the ids, in a
\* map by trip id, or the error of the first id that fails.
TripsOfIDs(b, tripIDs) ==
    IF \A i \in DOMAIN tripIDs : TripLoadError(b, tripIDs[i]) = "nil"
    THEN Ok([k \in {tripIDs[i] : i \in DOMAIN tripIDs} |-> TripDecode(k, b[k]).val])
    ELSE Err(TripLoadError(b,
             tripIDs[CHOOSE i \in DOMAIN tripIDs :
                        /\ TripLoadError(b, tripIDs[i]) # "nil"
                        /\ \A j \in 1..(i - 1) :
                              TripLoadError(b, tripIDs[j]) = "nil"]))

\* GetTripsByRouteID once the index entry has been decoded.
TripsOfIndexEntry(d, tripIDs) ==
    IF ~tripIDs.ok THEN Err(tripIDs.err) ELSE
    IF "trips" \notin DOMAIN d THEN Err("bucket not found") ELSE
    TripsOfIDs(Bucket(d, "trips"), tripIDs.val)

\* GetTripsByRouteID.
GetTripsByRouteID(d, routeID) ==
    IF "tripsByRouteIndex" \notin DOMAIN d THEN Err("bucket not found") ELSE
    IF routeID \notin DOMAIN Bucket(d, "tripsByRouteIndex")
    THEN Err("no trips found for route") ELSE
    TripsOfIndexEntry(d, KeyArrayDecode(Bucket(d, "tripsByRouteIndex")[routeID]))

---------------------------------------------------------------------------
(* Ingests into one store path, one after the other, and the queries on    *)
(* what they leave: the end of FromURL (initDB, then FromDB), Close and    *)
(* the lookups by id, by name and by route.                                *)

\* The most ingests into the path.
MaxIngests == 2

StoreAgency(id) ==
    [ID |-> id, Name |-> <<65>>, URL |-> <<>>, Timezone |-> ZoneUTC]
StoreRoute(id, name, inbound) ==
    [ID |-> id, AgencyID |-> <<97>>, Name |-> name, Type |-> 3,
     Colour |-> <<>>, InboundShapeID |-> inbound, OutboundShapeID |-> <<>>,
     Stops |-> <<>>]
StoreStop(id, name) ==
    [ID |-> id, Code |-> <<>>, Name |-> name, ParentID |-> <<>>,
     Location |-> [Latitude |-> F0, Longitude |-> F0], LocationType |-> 0,
     SupportedModes |-> 0]
StoreService(id) ==
    [ID |-> id, Weekdays |-> MondayWeekdayFlag, StartDate |-> Monday1,
     EndDate |-> Monday2]
StoreTrip(id, routeID) ==
    [ID |-> id, RouteID |-> routeID, ServiceID |-> <<49>>, ShapeID |-> <<>>,
     Direction |-> FALSE, Headsign |-> <<>>,
     Stops |-> <<[StopID |-> <<49>>, ArrivalTime |-> 28800,
                  DepartureTime |-> 28800, Timepoint |-> TRUE]>>]

\* The entity map of a set of entities: by id, as the parsers build it.
MapByID(S) == [id \in {e.ID : e \in S} |-> CHOOSE e \in S : e.ID = id]

\* A feed of the given agencies, routes, stops and trips, with one service.
StoreFeed(agencies, routes, stops, trips) ==
    [agencies |-> MapByID(agencies), routes |-> MapByID(routes),
     services |-> MapByID({StoreService(<<49>>)}),
     serviceExceptions |-> <<>>, shapes |-> <<>>,
     stops |-> MapByID(stops), trips |-> MapByID(trips)]

\* The ids and names of the feeds: "1", "2" and the empty string; "N", "M".
StoreKeys == {<<>>, <<49>>, <<50>>}
StoreNames == {<<>>, <<78>>, <<77>>}

\* The feeds ingested: one of everything; two routes and two stops of one
\* name and two trips of one route; other ids and names; a route, a stop
\* or a trip with an empty id; a route whose shape id is the empty string
\* and a trip without a route; an agency with an empty id; nothing.
StoreFeeds ==
    {StoreFeed({StoreAgency(<<97>>)}, {StoreRoute(<<49>>, <<78>>, <<>>)},
               {StoreStop(<<49>>, <<78>>)}, {StoreTrip(<<49>>, <<49>>)}),
     StoreFeed({StoreAgency(<<97>>)},
               {StoreRoute(<<49>>, <<78>>, <<>>), StoreRoute(<<50>>, <<78>>, <<>>)},
               {StoreStop(<<49>>, <<78>>), StoreStop(<<50>>, <<78>>)},
               {StoreTrip(<<49>>, <<49>>), StoreTrip(<<50>>, <<49>>)}),
     StoreFeed({StoreAgency(<<97>>)}, {StoreRoute(<<50>>, <<77>>, <<>>)},
               {StoreStop(<<50>>, <<77>>)}, {StoreTrip(<<50>>, <<50>>)}),
     StoreFeed({StoreAgency(<<97>>)},
               {StoreRoute(<<49>>, <<78>>, <<>>), StoreRoute(<<>>, <<77>>, <<>>)},
               {StoreStop(<<49>>, <<78>>)}, {StoreTrip(<<49>>, <<49>>)}),
     StoreFeed({StoreAgency(<<97>>)}, {StoreRoute(<<49>>, <<78>>, <<>>)},
               {StoreStop(<<49>>, <<78>>), StoreStop(<<>>, <<77>>)},
               {StoreTrip(<<49>>, <<49>>), StoreTrip(<<>>, <<49>>)}),
     StoreFeed({StoreAgency(<<97>>)}, {StoreRoute(<<49>>, <<>>, <<<<>>>>)},
               {StoreStop(<<49>>, <<>>)}, {StoreTrip(<<49>>, <<>>)}),
     StoreFeed({StoreAgency(<<>>)}, {StoreRoute(<<49>>, <<78>>, <<>>)},
               {}, {}),
     StoreFeed({}, {}, {}, {})}

\* What can go wrong in an ingest: nothing, the file cannot be opened, or
\* one of the transactions fails to commit.
StoreFailures ==
    {[openFails |-> FALSE, failing |-> {}], [openFails |-> TRUE, failing |-> {}]}
    \cup {[openFails |-> FALSE, failing |-> {name}]
          : name \in BatchNames \cup {"metadata"}}

\* The environments of an ingest of newFeed.
StoreEnvs(newFeed) ==
    {[openFails |-> f.openFails, failing |-> f.failing, now |-> Monday1,
      routeOrder |-> ro, stopOrder |-> so, tripOrder |-> to]
     : f \in StoreFailures, ro \in Orders(DOMAIN newFeed.routes),
       so \in Orders(DOMAIN newFeed.stops), to \in Orders(DOMAIN newFeed.trips)}

\* No ingest yet.
NoIngest == [n |-> 0, input |-> StoreFeed({}, {}, {}, {}), err |-> "none"]

StoreInit ==
    /\ CodecIdle
    /\ IngestIdle
    /\ db = EmptyDB
    /\ g = ZeroGTFS
    /\ lErr = NoCall
    /\ feed = NoIngest
    /\ query = NoCall
    /\ answer = NoCall

\* initDB has returned written; FromURL returns its error, or else what
\* FromDB returns.
StoreAfterInitDB(newFeed, written, loaded) ==
    /\ db' = written.db
    /\ g' = IF written.err THEN g ELSE loaded.g
    /\ feed' = [n |-> feed.n + 1, input |-> newFeed,
                err |-> IF written.err THEN "initDB" ELSE loaded.err]

\* FromDB on the file initDB has left.
StoreLoad(newFeed, written) ==
    StoreAfterInitDB(newFeed, written, FromDB(g, written.db, FALSE))

\* The end of FromURL on a parsed feed: initDB and then FromDB.  The file
\* is locked while a handle to it is open.
StoreIngest ==
    /\ feed.n < MaxIngests
    /\ g.db # "open"
    /\ \E newFeed \in StoreFeeds :
       \E env \in StoreEnvs(newFeed) :
          StoreLoad(newFeed, initDB(db, newFeed, env))
    /\ query' = NoCall
    /\ answer' = NoCall
    /\ UNCHANGED <<codecVars, lErr, ingestVars>>

\* g.Close().
StoreClose ==
    /\ g.db = "open"
    /\ g' = Close(g)
    /\ query' = NoCall
    /\ answer' = NoCall
    /\ UNCHANGED <<codecVars, db, lErr, feed, ingestVars>>

\* A lookup: the call and what it returned.
StoreAnswer(op, key, result) ==
    /\ g.db = "open"
    /\ query' = [op |-> op, key |-> key]
    /\ answer' = result
    /\ UNCHANGED <<codecVars, loadVars, feed, ingestVars>>

StoreGetAgencyByID ==
    \E key \in StoreKeys \cup {<<97>>} :
        StoreAnswer("GetAgencyByID", key, GetAgencyByID(db, key))
StoreGetRouteByID ==
    \E key \in StoreKeys : StoreAnswer("GetRouteByID", key, GetRouteByID(db, key))
StoreGetStopByID ==
    \E key \in StoreKeys : StoreAnswer("GetStopByID", key, GetStopByID(db, key))
StoreGetTripByID ==
    \E key \in StoreKeys : StoreAnswer("GetTripByID", key, GetTripByID(db, key))
StoreGetServiceByID ==
    \E key \in StoreKeys :
        StoreAnswer("GetServiceByID", key, GetServiceByID(db, key))
StoreGetRouteByName ==
    \E key \in StoreNames :
        StoreAnswer("GetRouteByName", key, GetRouteByName(db, key))
StoreGetStopByName ==
    \E key \in StoreNames :
        StoreAnswer("GetStopByName", key, GetStopByName(db, key))
StoreGetTripsByRouteID ==
    \E key \in StoreKeys :
        StoreAnswer("GetTripsByRouteID", key, GetTripsByRouteID(db, key))

StoreNext ==
    \/ StoreIngest
    \/ StoreClose
    \/ StoreGetAgencyByID
    \/ StoreGetRouteByID
    \/ StoreGetStopByID
    \/ StoreGetTripByID
    \/ StoreGetServiceByID
    \/ StoreGetRouteByName
    \/ StoreGetStopByName
    \/ StoreGetTripsByRouteID

SpecStore == StoreInit /\ [][StoreNext]_vars

\* The last ingest returned nil.
IngestSucceeded == feed.n > 0 /\ feed.err = "nil"

\* The keys bucket name of file d holds.
Held(d, name) == IF name \in DOMAIN d THEN DOMAIN d[name] ELSE {}

\* The keys of the entities in[put] of an ingest.
EntityKeys(m) == {m[id].ID : id \in DOMAIN m}

\* The keys that bucket name holds of the entities and the index entries
\* derived from the input of an ingest.
DerivedKeys(input, name) ==
    CASE name = "routesByNameIndex" ->
             {input.routes[id].Name : id \in DOMAIN input.routes} \ {<<>>}
      [] name = "stopsByNameIndex" ->
             {input.stops[id].Name : id \in DOMAIN input.stops} \ {<<>>}
      [] name = "tripsByRouteIndex" ->
             {input.trips[id].RouteID : id \in DOMAIN input.trips} \ {<<>>}
      [] name = "serviceExceptions" ->
             {ServiceExceptionStoreKey(input.serviceExceptions[x].ServiceID,
                                       input.serviceExceptions[x].Date)
              : x \in DOMAIN input.serviceExceptions}
      [] OTHER -> EntityKeys(input[name])

\* C11: after a successful ingest into a store path, the store holds
\* exactly the entities and the index entries derived from the input of
\* that ingest, also when the path held a store of an earlier ingest.
C11_StoreHoldsExactlyIngest ==
    IngestSucceeded =>
        \A name \in RequiredBuckets :
            Held(db, name) = DerivedKeys(feed.input, name)

\* The entities of map m whose name is n.
Named(m, n) == {m[id] : id \in {x \in DOMAIN m : m[x].Name = n}}

\* C12: after an ingest, for every route with a non-empty name n
\* GetRouteByName(n) succeeds and returns a route whose Name is n, and
\* likewise GetStopByName for every stop.
C12_NameLookupFindsName ==
    /\ (/\ IngestSucceeded
        /\ query.op = "GetRouteByName"
        /\ query.key # <<>>
        /\ Named(feed.input.routes, query.key) # {})
       => (answer.ok /\ answer.val.Name = query.key)
    /\ (/\ IngestSucceeded
        /\ query.op = "GetStopByName"
        /\ query.key # <<>>
        /\ Named(feed.input.stops, query.key) # {})
       => (answer.ok /\ answer.val.Name = query.key)

\* The entity map of the input that a lookup by id reads.
MapOfLookup(input, op) ==
    CASE op = "GetAgencyByID" -> input.agencies
      [] op = "GetRouteByID" -> input.routes
      [] op = "GetStopByID" -> input.stops
      [] op = "GetTripByID" -> input.trips
      [] op = "GetServiceByID" -> input.services

LookupsByID ==
    {"GetAgencyByID", "GetRouteByID", "GetStopByID", "GetTripByID",
     "GetServiceByID"}

\* C13: after an ingest, for every ingested agency, route, stop, trip and
\* service with key k, GetXByID(k) succeeds and returns the entity with
\* that id and the fields of the ingested entity.
C13_LookupByIDReturnsIngested ==
    (/\ IngestSucceeded
     /\ query.op \in LookupsByID
     /\ query.key \in EntityKeys(MapOfLookup(feed.input, query.op)))
    => (/\ answer.ok
        /\ answer.val.ID = query.key
        /\ answer.val \in {MapOfLookup(feed.input, query.op)[id]
                           : id \in DOMAIN MapOfLookup(feed.input, query.op)})

\* The ingested trips of route r.
TripsOfRoute(m, r) == {m[id] : id \in {x \in DOMAIN m : m[x].RouteID = r}}

\* C14: after an ingest, for every route id r that an ingested trip refers
\* to, GetTripsByRouteID(r) returns exactly the ingested trips whose
\* RouteID is r, each under its own trip id.
C14_TripsByRouteExact ==
    (/\ IngestSucceeded
     /\ query.op = "GetTripsByRouteID"
     /\ query.key # <<>>
     /\ TripsOfRoute(feed.input.trips, query.key) # {})
    => (/\ answer.ok
        /\ answer.val = MapByID(TripsOfRoute(feed.input.trips, query.key)))

\* C20: Populate returns an error whenever one of its seven batch writes
\* fails, so that initDB never records the metadata of (and returns nil
\* for) a store in which a collection or its index was not written.
C20_FailedWriteFailsIngest ==
    (feed.n > 0 /\ feed.err # "initDB") =>
        \A name \in RequiredBuckets :
            DerivedKeys(feed.input, name) \subseteq Held(db, name)

---------------------------------------------------------------------------
(* Point lookups on a store file as it may be found on disk: whole, with   *)
(* a damaged record, or without one of its buckets.                        *)

\* The store of a feed with one agency, route, stop, trip and service.
LookupStore ==
    initDB(EmptyDB,
           StoreFeed({StoreAgency(<<97>>)}, {StoreRoute(<<49>>, <<78>>, <<>>)},
                     {StoreStop(<<49>>, <<78>>)}, {StoreTrip(<<49>>, <<49>>)}),
           QuietEnv(StoreFeed({StoreAgency(<<97>>)},
                              {StoreRoute(<<49>>, <<78>>, <<>>)},
                              {StoreStop(<<49>>, <<78>>)},
                              {StoreTrip(<<49>>, <<49>>)}))).db

\* The bucket a lookup by id reads.
BucketOfLookup(op) ==
    CASE op = "GetAgencyByID" -> "agencies"
      [] op = "GetRouteByID" -> "routes"
      [] op = "GetStopByID" -> "stops"
      [] op = "GetTripByID" -> "trips"
      [] op = "GetServiceByID" -> "services"

LookupBuckets == {BucketOfLookup(op) : op \in LookupsByID}

\* A record that has lost its last byte, or gained one.
Damaged(data) == {SubSeq(data, 1, Len(data) - 1), Append(data, 0)}

\* File d without bucket name.
WithoutBucket(d, name) == [n \in DOMAIN d \ {name} |-> d[n]]

\* The files that differ from d in one damaged record of bucket name.
DamagedIn(d, name) ==
    UNION {{WithBucket(d, name, [d[name] EXCEPT ![k] = data])
            : data \in Damaged(d[name][k])} : k \in DOMAIN d[name]}

\* The files: the store, the store with one record damaged, the store
\* without one bucket.
LookupFiles ==
    {LookupStore}
    \cup UNION {DamagedIn(LookupStore, name) : name \in LookupBuckets}
    \cup {WithoutBucket(LookupStore, name) : name \in LookupBuckets}

LookupInit ==
    /\ CodecIdle
    /\ IngestIdle
    /\ db \in LookupFiles
    /\ g = FromDB(ZeroGTFS, db, FALSE).g
    /\ lErr = NoCall
    /\ feed = NoIngest
    /\ query = NoCall
    /\ answer = NoCall

LookupGetAgencyByID ==
    \E key \in StoreKeys \cup {<<97>>} :
        StoreAnswer("GetAgencyByID", key, GetAgencyByID(db, key))
LookupGetRouteByID ==
    \E key \in StoreKeys : StoreAnswer("GetRouteByID", key, GetRouteByID(db, key))
LookupGetStopByID ==
    \E key \in StoreKeys : StoreAnswer("GetStopByID", key, GetStopByID(db, key))
LookupGetTripByID ==
    \E key \in StoreKeys : StoreAnswer("GetTripByID", key, GetTripByID(db, key))
LookupGetServiceByID ==
    \E key \in StoreKeys :
        StoreAnswer("GetServiceByID", key, GetServiceByID(db, key))

LookupNext ==
    \/ LookupGetAgencyByID
    \/ LookupGetRouteByID
    \/ LookupGetStopByID
    \/ LookupGetTripByID
    \/ LookupGetServiceByID

SpecLookup == LookupInit /\ [][LookupNext]_vars

\* The errors of a lookup that did not find what it looked for.
NotFoundErrors ==
    {"bucket not found", "agency not found", "route not found",
     "stop not found", "trip not found", "service not found"}

\* C15: a point lookup on an absent key returns a not-found error, which
\* differs from every decode failure; a lookup on a present key returns
\* the record or a decode failure, never a not-found error.
C15_NotFoundDistinguished ==
    query.op \in LookupsByID =>
        IF query.key \in Held(db, BucketOfLookup(query.op))
        THEN answer.ok \/ answer.err \notin NotFoundErrors
        ELSE ~answer.ok /\ answer.err \in NotFoundErrors

\* An absent agency was looked up and not found in a file that also holds
\* a present agency record that fails to decode.
C15_Witness ==
    /\ query.op = "GetAgencyByID"
    /\ "agencies" \in DOMAIN db
    /\ query.key \notin DOMAIN db["agencies"]
    /\ answer = Err("agency not found")
    /\ \E k \in DOMAIN db["agencies"] :
          /\ ~GetAgencyByID(db, k).ok
          /\ GetAgencyByID(db, k).err \notin NotFoundErrors

---------------------------------------------------------------------------
(* The scheduling queries at their edges: an empty list, a trip whose      *)
(* service is missing, a service exception record that does not decode,    *)
(* and ranges a few seconds wide around the start of a trip.               *)

\* The widest range of GetCurrentTripsBetween, in seconds.
MaxWidth == 4

\* A Monday service with one exception at most, and the same feed without
\* its calendar so that the trips refer to a service that is missing.
EdgeFeeds ==
    {SchedFeed(ZoneUTC, MondayWeekdayFlag, <<Monday1, Monday2>>, exc)
     : exc \in SchedExceptions}
    \cup {[SchedFeed(ZoneUTC, MondayWeekdayFlag, <<Monday1, Monday2>>, <<>>)
              EXCEPT !.services = <<>>]}

\* The store of the feed, whole or with a damaged service exception record.
EdgeFiles(newFeed) ==
    {initDB(EmptyDB, newFeed, QuietEnv(newFeed)).db}
    \cup DamagedIn(initDB(EmptyDB, newFeed, QuietEnv(newFeed)).db,
                   "serviceExceptions")

\* The instants: 08:20 on the Monday and on the Tuesday.
EdgeInstants == {Monday1 + 30000, Tuesday1 + 30000}

\* The starts of the ranges: the seconds up to 08:00:00 on the Monday, when
\* TripDay starts.
EdgeStarts == {Monday1 + 28800 - back : back \in 0..MaxWidth}

EdgeInit ==
    /\ CodecIdle
    /\ IngestIdle
    /\ feed \in EdgeFeeds
    /\ db \in EdgeFiles(feed)
    /\ g = FromDB(ZeroGTFS, db, FALSE).g
    /\ lErr = NoCall
    /\ query = NoCall
    /\ answer = NoCall

\* A call of GetCurrentTripsWithBuffer of the TripArray version.
EdgeQueryTripArray ==
    /\ query = NoCall
    /\ g.db = "open"
    /\ \E trips \in TripLists, t \in EdgeInstants, buffer \in QueryBuffers :
          /\ query' = [op |-> "TripArray", trips |-> trips, first |-> 1,
                       t |-> t, buffer |-> buffer]
          /\ answer' = GetCurrentTripsWithBuffer(db, trips, t, buffer)
    /\ UNCHANGED <<codecVars, loadVars, feed, ingestVars>>

\* A call of GetCurrentTripsWithBuffer of the TripMap version.
EdgeQueryTripMap ==
    /\ query = NoCall
    /\ g.db = "open"
    /\ \E trips \in TripLists, t \in EdgeInstants, buffer \in QueryBuffers :
       \E first \in (IF trips = <<>> THEN {1} ELSE DOMAIN trips) :
          /\ query' = [op |-> "TripMap", trips |-> trips, first |-> first,
                       t |-> t, buffer |-> buffer]
          /\ answer' = GetCurrentTripsWithBufferTripMap(db, trips, first, t, buffer)
    /\ UNCHANGED <<codecVars, loadVars, feed, ingestVars>>

\* A call of GetCurrentTripsBetween.
EdgeQueryBetween ==
    /\ query = NoCall
    /\ g.db = "open"
    /\ \E trips \in TripLists, start \in EdgeStarts, width \in 0..MaxWidth :
          /\ query' = [op |-> "Between", trips |-> trips, first |-> 1,
                       t |-> start, buffer |-> 0,
                       start |-> start, end |-> start + width]
          /\ answer' = GetCurrentTripsBetween(db, trips, start, start + width)
    /\ UNCHANGED <<codecVars, loadVars, feed, ingestVars>>

EdgeNext == EdgeQueryTripArray \/ EdgeQueryTripMap \/ EdgeQueryBetween

SpecEdge == EdgeInit /\ [][EdgeNext]_vars

\* The service of the trip is missing from the store.
ServiceMissing(trip) == ~GetServiceByID(db, trip.ServiceID).ok

\* The store holds a service exception record for the trip's service on
\* the date of the query, and the record does not decode.
ExceptionMalformed(trip) ==
    /\ ServiceExceptionStoreKey(trip.ServiceID, QueryWall)
           \in Held(db, "serviceExceptions")
    /\ ~ServiceExceptionDecode(
           db["serviceExceptions"][
               ServiceExceptionStoreKey(trip.ServiceID, QueryWall)]).ok

\* C16: if the service of a candidate trip is missing, or the stored
\* service exception record for its service and the date of t is
\* malformed, GetCurrentTripsWithBuffer returns an error and no trips.
C16_LookupFailureIsError ==
    (/\ query.op \in {"TripArray", "TripMap"}
     /\ \E i \in DOMAIN query.trips :
           ServiceMissing(query.trips[i]) \/ ExceptionMalformed(query.trips[i]))
    => ~answer.ok

\* C17: GetCurrentTripsWithBuffer called with an empty list returns an
\* empty result and a nil error without any lookup of a route, an agency,
\* a time zone, a service or a service exception.
C17_EmptyListNoLookups ==
    (query # NoCall /\ query.trips = <<>>)
    => (answer.ok /\ answer.val = <<>> /\ answer.lookups = {})

\* The empty list was handed in on a store whose first lookups would have
\* succeeded and whose services are missing.
C17_Witness ==
    /\ query.op = "TripArray"
    /\ query.trips = <<>>
    /\ answer.ok
    /\ answer.lookups = {}
    /\ GetRouteByID(db, <<114>>).ok
    /\ ~GetServiceByID(db, <<118>>).ok

\* The trips GetCurrentTripsWithBuffer returns at second s with no buffer.
RunningAt(s) == Elems(GetCurrentTripsWithBuffer(db, query.trips, s, 0).val)

\* C18: for start <= end, GetCurrentTripsBetween returns exactly the trips
\* that are running at some second of the closed range from start to end,
\* whatever the width of the range.
C18_NoSecondLost ==
    (query.op = "Between" /\ answer.ok)
    => Elems(answer.val) = UNION {RunningAt(s) : s \in query.start..query.end}

---------------------------------------------------------------------------
(* The join of FromURL.                                                    *)

\* wg.Wait() has returned in the goroutine that called FromURL.
WaitReturned == pc["main"] \in {"select", "initDB", "FromDB"}

\* The goroutines that are about to write a shared variable: a parser
\* whose result has yet to be assigned, the collector with a value in hand.
PendingWriters ==
    {p \in Tasks : pc[p] = "parse"}
    \cup (IF pc["collector"] = "assign" THEN {"collector"} ELSE {})

\* C19: once wg.Wait() has returned in FromURL, no goroutine started by
\* FromURL writes a shared variable: every write has happened before the
\* aggregation pass reads them.
C19_NoWriteAfterWait == WaitReturned => PendingWriters = {}

---------------------------------------------------------------------------
(* The functions without state, each applied once to an input drawn from   *)
(* a small set: query holds the call, answer what it returned.             *)

\* The most days a trip window is shifted by when an overlap is looked for.
MaxShift == 4

\* Seconds of the day: the first, the last, 08:00 and noon.
IntervalTimes == {0, 1, 28800, 43200, 86398, 86399}

\* Buffers in seconds: none to more than two days.
IntervalBuffers == {0, 1, 2, 43200, 86399, 86400, 86401, 172800, 200000}

IntervalCalls ==
    {[op |-> "isTripWithinInterval", s |-> s, e |-> e, t |-> t, b |-> b]
     : s \in IntervalTimes, e \in IntervalTimes, t \in IntervalTimes,
       b \in IntervalBuffers}

\* isTripWithinInterval on the inputs drawn.
PureIsTripWithinInterval ==
    /\ query.op = "isTripWithinInterval"
    /\ answer = NoCall
    /\ answer' = [val |-> isTripWithinInterval(query.s, query.e, query.t, query.b)]
    /\ UNCHANGED <<codecVars, loadVars, feed, query, ingestVars>>

\* Whether [t - b, t + b] meets the window from s to e (to e on the next
\* day if e < s) shifted by k days.
MeetsShifted(s, e, t, b, k) ==
    /\ t - b <= (IF e < s THEN e + secondsInDay ELSE e) + k * secondsInDay
    /\ s + k * secondsInDay <= t + b

\* C21: isTripWithinInterval(s, e, t, b) is true exactly when the interval
\* from t - b to t + b meets the trip window shifted by some whole number
\* of days; the shifts by -1, 0 and 1 miss no overlap and add none.
C21_ThreeShiftsSuffice ==
    (query.op = "isTripWithinInterval" /\ answer # NoCall)
    => (answer.val <=>
            \E k \in (-MaxShift)..MaxShift :
                MeetsShifted(query.s, query.e, query.t, query.b, k))

\* The interval meets the window of the day before and no other among the
\* three, and the call has said so.
C21_Witness ==
    /\ query.op = "isTripWithinInterval"
    /\ answer # NoCall
    /\ answer.val
    /\ MeetsShifted(query.s, query.e, query.t, query.b, -1)
    /\ ~MeetsShifted(query.s, query.e, query.t, query.b, 0)
    /\ ~MeetsShifted(query.s, query.e, query.t, query.b, 1)

\* The flags of the days between Tuesday and Sunday.
WednesdayWeekdayFlag == 2 ^ 2
ThursdayWeekdayFlag == 2 ^ 3
FridayWeekdayFlag == 2 ^ 4
SaturdayWeekdayFlag == 2 ^ 5

\* parseWeekdayFlag: the flag if the column reads as the number 1.
parseWeekdayFlag(day, flag) ==
    IF Atoi(day).ok /\ Atoi(day).val = 1 THEN flag ELSE 0

\* The weekdays of a calendar.txt row read with its seven day columns
\* taken to start on Sunday.
ParseWeekdaysSundayFirst(record) ==
    parseWeekdayFlag(record[1], SundayWeekdayFlag)
    + parseWeekdayFlag(record[2], MondayWeekdayFlag)
    + parseWeekdayFlag(record[3], TuesdayWeekdayFlag)
    + parseWeekdayFlag(record[4], WednesdayWeekdayFlag)
    + parseWeekdayFlag(record[5], ThursdayWeekdayFlag)
    + parseWeekdayFlag(record[6], FridayWeekdayFlag)
    + parseWeekdayFlag(record[7], SaturdayWeekdayFlag)

\* The weekdays ParseServices builds from the seven day columns of a
\* calendar.txt row, monday to sunday: the flags are different bits, so
\* their bitwise or is their sum.
ParseWeekdays(record) ==
    parseWeekdayFlag(record[1], MondayWeekdayFlag)
    + parseWeekdayFlag(record[2], TuesdayWeekdayFlag)
    + parseWeekdayFlag(record[3], WednesdayWeekdayFlag)
    + parseWeekdayFlag(record[4], ThursdayWeekdayFlag)
    + parseWeekdayFlag(record[5], FridayWeekdayFlag)
    + parseWeekdayFlag(record[6], SaturdayWeekdayFlag)
    + parseWeekdayFlag(record[7], SundayWeekdayFlag)

\* The day columns of calendar.txt rows: every row of "0" and "1", and the
\* rows of "1" with one column empty, "2" or "x".
WeekdayRows ==
    [1..7 -> {<<48>>, <<49>>}]
    \cup {[i \in 1..7 |-> IF i = j THEN v ELSE <<49>>]
          : j \in 1..7, v \in {<<>>, <<50>>, <<120>>}}

\* A row and a time.Weekday, among them two values that are no weekday.
WeekdayCalls ==
    {[op |-> "hasDay", row |-> row, day |-> day]
     : row \in WeekdayRows, day \in (Sunday - 1)..(Saturday + 1)}

\* hasDay on the weekdays ParseServices builds from the row.
PureHasDay ==
    /\ query.op = "hasDay"
    /\ answer = NoCall
    /\ answer' = [val |-> hasDay(ParseWeekdays(query.row), query.day),
                  flags |-> ParseWeekdays(query.row)]
    /\ UNCHANGED <<codecVars, loadVars, feed, query, ingestVars>>

\* The day column of calendar.txt for a time.Weekday: monday is the first
\* and sunday the seventh.
ColumnOfDay(day) == IF day = Sunday THEN 7 ELSE day

\* C27: the bit hasDay tests for weekday d is bit (d + 6) mod 7, the bit
\* ParseServices sets for that day's column, so hasDay is true exactly
\* when the calendar row marks day d.
C27_HasDayMatchesCalendar ==
    (query.op = "hasDay" /\ answer # NoCall /\ query.day \in Sunday..Saturday)
    => /\ answer.val <=> query.row[ColumnOfDay(query.day)] = <<49>>
       /\ answer.val <=> FlagSet(answer.flags, 2 ^ ((query.day + 6) % 7))

\* A row that marks Sunday and not Monday was asked about Sunday.
C27_Witness ==
    /\ query.op = "hasDay"
    /\ answer # NoCall
    /\ query.day = Sunday
    /\ query.row[7] = <<49>>
    /\ query.row[1] = <<48>>
    /\ answer.val

\* A trip of a route in a direction with a shape id ("" for none) and the
\* stops it visits.
ShapedTrip(id, routeID, direction, shapeID, stopIDs) ==
    [ID |-> id, RouteID |-> routeID, ServiceID |-> <<49>>, ShapeID |-> shapeID,
     Direction |-> direction, Headsign |-> <<>>,
     Stops |-> [i \in DOMAIN stopIDs |->
                   [StopID |-> stopIDs[i], ArrivalTime |-> 28800 + 60 * i,
                    DepartureTime |-> 28800 + 60 * i, Timepoint |-> TRUE]]]

\* The shape ids of the trips: none, "s" and "u".
AggregationShapeIDs == {<<>>, <<115>>, <<117>>}

\* The trips a trip map is made from: "a" visits stops 1, 2 and 1 again,
\* "b" visits 2 and 3, "c" visits 4; "a" and "b" are of route "r" and "c"
\* of route "r" or "q".
AggregationTrips(id) ==
    {ShapedTrip(id, routeID, direction, shapeID,
                CASE id = <<97>> -> <<(<<49>>), (<<50>>), (<<49>>)>>
                  [] id = <<98>> -> <<(<<50>>), (<<51>>)>>
                  [] OTHER -> <<(<<52>>)>>)
     : routeID \in IF id = <<99>> THEN {<<114>>, <<113>>} ELSE {<<114>>},
       direction \in BOOLEAN, shapeID \in AggregationShapeIDs}

\* The trip maps: each of "a", "b" and "c" is there or not.
AggregationTripMaps ==
    {MapByID(a \cup b \cup c)
     : a \in {{}} \cup {{t} : t \in AggregationTrips(<<97>>)},
       b \in {{}} \cup {{t} : t \in AggregationTrips(<<98>>)},
       c \in {{}} \cup {{t} : t \in AggregationTrips(<<99>>)}}

\* The routes of the feed: "r", "q" and "z", which has no trip.
AggregationRoutes ==
    MapByID({StoreRoute(<<114>>, <<78>>, <<>>), StoreRoute(<<113>>, <<77>>, <<>>),
             StoreRoute(<<122>>, <<76>>, <<>>)})

AggregationCalls ==
    {[op |-> "getRouteShapeAndStops", tripMap |-> tripMap]
     : tripMap \in AggregationTripMaps}

\* The aggregation pass of FromURL: getRouteShapeAndStops on the trips, and
\* its shapes and stops copied into the routes.
PureGetRouteShapeAndStops ==
    /\ query.op = "getRouteShapeAndStops"
    /\ answer = NoCall
    /\ \E shapeAndStops \in getRouteShapeAndStops(query.tripMap) :
           answer' = [routes |-> WithShapeAndStops(AggregationRoutes,
                                                   shapeAndStops)]
    /\ UNCHANGED <<codecVars, loadVars, feed, query, ingestVars>>

\* The trips of a route that use the shape selected for their direction.
TripsOfSelectedShapes(tripMap, route) ==
    {id \in DOMAIN tripMap :
        /\ tripMap[id].RouteID = route.ID
        /\ IF tripMap[id].Direction = InboundTripDirection
           THEN route.InboundShapeID = <<tripMap[id].ShapeID>>
           ELSE route.OutboundShapeID = <<tripMap[id].ShapeID>>}

\* The stops those trips visit.
StopsOfSelectedShapes(tripMap, route) ==
    UNION {{tripMap[id].Stops[i].StopID : i \in DOMAIN tripMap[id].Stops}
           : id \in TripsOfSelectedShapes(tripMap, route)}

\* No element twice.
NoDuplicates(seq) == \A i, j \in DOMAIN seq : seq[i] = seq[j] => i = j

\* C22: after the aggregation pass each route's Stops has no StopID twice
\* and is exactly the union of the StopIDs visited by the route's trips that
\* use the selected shape of their direction, over both directions, also
\* when trips carry no shape id.
C22_StopsAreUnionOfSelectedShapes ==
    (query.op = "getRouteShapeAndStops" /\ answer # NoCall)
    => \A routeID \in DOMAIN answer.routes :
           /\ NoDuplicates(answer.routes[routeID].Stops)
           /\ Elems(answer.routes[routeID].Stops)
                  = StopsOfSelectedShapes(query.tripMap, answer.routes[routeID])

\* The service ids and the dates of the exceptions of calendar_dates.txt:
\* ids that are empty or digits, and dates whose digits run into each
\* other when written without padding.
ExceptionServiceIDs == {<<>>, <<50>>, <<50, 48>>, <<118>>}
ExceptionDates ==
    {DateUTC(2025, 1, 11), DateUTC(2025, 11, 1), Monday1, DateUTC(2020, 10, 10)}

\* The rows ParseServiceExceptions has read, as the exceptions it makes of
\* them.
ExceptionRows ==
    {[ServiceID |-> serviceID, Date |-> date, Type |-> type]
     : serviceID \in ExceptionServiceIDs, date \in ExceptionDates,
       type \in {AddedExceptionType}}
    \cup {[ServiceID |-> <<118>>, Date |-> Monday1, Type |-> RemovedExceptionType]}

\* The ServiceExceptionMap of a set of exceptions: by service id and date.
ExceptionMap(S) ==
    [k \in {<<e.ServiceID, e.Date>> : e \in S} |->
        CHOOSE e \in S : <<e.ServiceID, e.Date>> = k]

\* The maps of two exceptions or fewer, one for a service id and date.
ExceptionMaps ==
    {ExceptionMap({e1, e2}) : e1, e2 \in ExceptionRows} \cup {ExceptionMap({})}

\* The instants GetServiceException is asked about: the midnight of a date
\* and the last second of it, read in UTC.
ExceptionInstants ==
    ExceptionDates \cup {date + secondsInDay - 1 : date \in ExceptionDates}

ExceptionCalls ==
    {[op |-> "GetServiceException", exceptions |-> m, serviceID |-> serviceID,
      date |-> date]
     : m \in ExceptionMaps, serviceID \in ExceptionServiceIDs,
       date \in ExceptionInstants}

\* The file after the service exceptions batch of Populate on exceptions.
ExceptionStore(exceptions) ==
    ServiceExceptionBatch(EmptyDB, exceptions, FALSE).db

\* GetServiceException on the file the exceptions were written to.
PureGetServiceException ==
    /\ query.op = "GetServiceException"
    /\ answer = NoCall
    /\ answer' = [keys |-> DOMAIN Bucket(ExceptionStore(query.exceptions),
                                         "serviceExceptions"),
                  result |-> GetServiceException(ExceptionStore(query.exceptions),
                                                 query.serviceID, query.date)]
    /\ UNCHANGED <<codecVars, loadVars, feed, query, ingestVars>>

\* The exceptions of the map for a service on the calendar date of an
\* instant.
ExceptionsFor(exceptions, serviceID, date) ==
    {exceptions[k] : k \in {x \in DOMAIN exceptions :
                               /\ exceptions[x].ServiceID = serviceID
                               /\ DayOf(exceptions[x].Date) = DayOf(date)}}

\* C23: the store key of a service exception is collision-free: exceptions
\* that differ in ServiceID or in calendar date have different keys, and
\* GetServiceException(s, d) returns the exception ingested for service s
\* and date d, or not-found when there is none.
C23_ExceptionKeyCollisionFree ==
    (query.op = "GetServiceException" /\ answer # NoCall)
    => /\ Cardinality(answer.keys) = Cardinality(DOMAIN query.exceptions)
       /\ \A k1, k2 \in DOMAIN query.exceptions :
              ServiceExceptionStoreKey(k1[1], k1[2])
                  = ServiceExceptionStoreKey(k2[1], k2[2]) => k1 = k2
       /\ IF answer.result.ok
          THEN /\ answer.result.val.ServiceID = query.serviceID
               /\ ExceptionsFor(query.exceptions, query.serviceID, query.date)
                      = {answer.result.val}
          ELSE /\ answer.result.err = "service exception not found"
               /\ ExceptionsFor(query.exceptions, query.serviceID, query.date) = {}

\* Two exceptions for the service "2" and the service "20" were ingested,
\* and the one of service "2" on the date asked about was returned.
C23_Witness ==
    /\ query.op = "GetServiceException"
    /\ answer # NoCall
    /\ Cardinality(DOMAIN query.exceptions) = 2
    /\ {k[1] : k \in DOMAIN query.exceptions} = {<<50>>, <<50, 48>>}
    /\ query.serviceID = <<50>>
    /\ query.date # DayOf(query.date) * secondsInDay
    /\ answer.result.ok

\* One entity of each type, with the id "1" (the exception: of service
\* "1" on a Monday).
ReadEntities ==
    {[kind |-> "Agency", val |-> StoreAgency(<<49>>)],
     [kind |-> "Route", val |-> StoreRoute(<<49>>, <<78>>, <<>>)],
     [kind |-> "Stop", val |-> StoreStop(<<49>>, <<78>>)],
     [kind |-> "Service", val |-> StoreService(<<49>>)],
     [kind |-> "ServiceException",
      val |-> [ServiceID |-> <<49>>, Date |-> Monday1,
               Type |-> AddedExceptionType]],
     [kind |-> "Shape", val |-> [ID |-> <<49>>, Coordinates |-> <<>>]],
     [kind |-> "Trip", val |-> StoreTrip(<<49>>, <<114>>)]}

\* The store keys a record is read under: the key of the entity itself and
\* others.
ReadKeys(kind) ==
    IF kind = "ServiceException"
    THEN {ServiceExceptionStoreKey(serviceID, date)
          : serviceID \in StoreKeys, date \in {Monday1, Tuesday1}}
    ELSE StoreKeys

ReadCalls ==
    UNION {{[op |-> "Decode", entity |-> e, key |-> key] : key \in ReadKeys(e.kind)}
           : e \in ReadEntities}

\* What a getter makes of the record data it has read under key: Decode of
\* the type, which is handed the key except for a service exception.
DecodeUnderKey(kind, key, data) ==
    CASE kind = "Agency" -> AgencyDecode(key, data)
      [] kind = "Route" -> RouteDecode(key, data)
      [] kind = "Stop" -> StopDecode(key, data)
      [] kind = "Service" -> ServiceDecode(key, data)
      [] kind = "ServiceException" -> ServiceExceptionDecode(data)
      [] kind = "Shape" -> ShapeDecode(key, data)
      [] kind = "Trip" -> TripDecode(key, data)

\* The record of an entity is read under a key and decoded.
PureDecodeUnderKey ==
    /\ query.op = "Decode"
    /\ answer = NoCall
    /\ answer' = [payload |-> EncodeEntity(query.entity),
                  result |-> DecodeUnderKey(query.entity.kind, query.key,
                                            EncodeEntity(query.entity))]
    /\ UNCHANGED <<codecVars, loadVars, feed, query, ingestVars>>

\* The store key an entity is written under.
StoreKeyOf(kind, val) ==
    IF kind = "ServiceException"
    THEN ServiceExceptionStoreKey(val.ServiceID, val.Date)
    ELSE val.ID

\* The entity with another identifier: another id, for a service exception
\* another service id.
WithIdentifier(kind, val, id) ==
    IF kind = "ServiceException"
    THEN [val EXCEPT !.ServiceID = id]
    ELSE [val EXCEPT !.ID = id]

\* C24: for every entity type the payload does not hold the identifier
\* (entities that differ in the identifier only have the same payload), and
\* the identifier of a decoded entity is the key its record was read under.
C24_IdentifierIsTheStoreKey ==
    (query.op = "Decode" /\ answer # NoCall)
    => /\ \A id \in StoreKeys :
              EncodeEntity([kind |-> query.entity.kind,
                            val |-> WithIdentifier(query.entity.kind,
                                                   query.entity.val, id)])
                  = answer.payload
       /\ answer.result.ok
          => StoreKeyOf(query.entity.kind, answer.result.val) = query.key

\* The ids a name lookup can resolve the name to over the orders in which
\* an ingest of the entity map m can iterate it.
ResolvedIDs(m, name) == {NameIndex(m, order)[name] : order \in Orders(DOMAIN m)}

\* The entity map of the input that a lookup by name reads, and its index.
MapOfNameLookup(input, op) ==
    IF op = "GetRouteByName" THEN input.routes ELSE input.stops
IndexOfNameLookup(op) ==
    IF op = "GetRouteByName" THEN "routesByNameIndex" ELSE "stopsByNameIndex"

\* C25: when several routes (or stops) share a name, the name index keeps
\* the ids of all of them and the lookup by name resolves to one of them
\* that is the same for every ingest of the same input (into a new file).
C25_NameLookupDeterministic ==
    (/\ IngestSucceeded
     /\ feed.n = 1
     /\ query.op \in {"GetRouteByName", "GetStopByName"}
     /\ Named(MapOfNameLookup(feed.input, query.op), query.key) # {}
     /\ query.key # <<>>
     /\ answer.ok)
    => /\ ResolvedIDs(MapOfNameLookup(feed.input, query.op), query.key)
              = {answer.val.ID}
       /\ \A e \in Named(MapOfNameLookup(feed.input, query.op), query.key) :
              Bucket(db, IndexOfNameLookup(query.op))[query.key] = e.ID

---------------------------------------------------------------------------
(* ParseTrips: the rows of stop_times.txt and trips.txt made into trips.    *)

ApproximateTripTimepoint == FALSE
ExactTripTimepoint == TRUE

\* parseTime on the strings of the model: two digits of hours, of minutes
\* and of seconds with colons between them, anything else is an error.
parseTime(timeStr) ==
    IF \/ Len(timeStr) # 8
       \/ timeStr[3] # 58
       \/ timeStr[6] # 58
       \/ \E i \in {1, 2, 4, 5, 7, 8} : timeStr[i] \notin 48..57
    THEN Err("input does not match format")
    ELSE Ok(DigitsValue(SubSeq(timeStr, 1, 2)) * 60 * 60
            + DigitsValue(SubSeq(timeStr, 4, 5)) * 60
            + DigitsValue(SubSeq(timeStr, 7, 8)))

\* The tripStopSequence ParseTrips makes of a row of stop_times.txt, whose
\* columns are trip_id, arrival_time, departure_time, stop_id,
\* stop_sequence, ..., timepoint: record[0] of the code is record[1] here.
\* The sequence is read from record[0], the trip id.
StopTimeOfRecord(record) ==
    IF ~parseTime(record[2]).ok THEN parseTime(record[2]) ELSE
    IF ~parseTime(record[3]).ok THEN parseTime(record[3]) ELSE
    IF ~Atoi(record[1]).ok THEN Atoi(record[1]) ELSE
    Ok([tripID |-> record[1],
        TripStop |-> [StopID |-> record[4],
                      ArrivalTime |-> parseTime(record[2]).val,
                      DepartureTime |-> parseTime(record[3]).val,
                      Timepoint |-> IF Atoi(record[8]).ok /\ Atoi(record[8]).val # 0
                                    THEN ExactTripTimepoint
                                    ELSE ApproximateTripTimepoint],
        Sequence |-> Atoi(record[1]).val])

\* tripStops[id] after the rows of stop_times.txt were read: the
\* tripStopSequences of the trip in the order of the rows.
TripStopsOf(records, id) ==
    LET mine == SelectSeqBy(records, {r \in Elems(records) : r[1] = id})
    IN  [i \in DOMAIN mine |-> StopTimeOfRecord(mine[i]).val]

\* What sort.Slice by Sequence can leave: the elements in an order in
\* which no element comes before one with a smaller Sequence (the sort is
\* not stable, elements with the same Sequence come in any order).
SortSliceBySequence(tripStopSeqs) ==
    {[i \in DOMAIN tripStopSeqs |-> tripStopSeqs[p[i]]]
     : p \in {q \in Orders(DOMAIN tripStopSeqs) :
                 \A i, j \in DOMAIN tripStopSeqs :
                     i < j => ~(tripStopSeqs[q[j]].Sequence
                                    < tripStopSeqs[q[i]].Sequence)}}

\* The trips ParseTrips can make of a row of trips.txt, whose columns are
\* route_id, service_id, trip_id, direction_id, trip_headsign, shape_id.
TripsOfRecord(record, stopTimes) ==
    {[ID |-> record[3], RouteID |-> record[1], ServiceID |-> record[2],
      ShapeID |-> record[6],
      Direction |-> IF Atoi(record[4]).val = 0 THEN OutboundTripDirection
                    ELSE InboundTripDirection,
      Headsign |-> record[5],
      Stops |-> [i \in DOMAIN sorted |-> sorted[i].TripStop]]
     : sorted \in SortSliceBySequence(TripStopsOf(stopTimes, record[3]))}

\* ParseTrips: the results it can return.  A row of stop_times.txt whose
\* times or trip id do not parse, or a row of trips.txt whose direction
\* does not, is an error; a trip without rows in stop_times.txt is skipped;
\* of two rows of trips.txt with one trip id the later one stays.
ParseTrips(tripsRecords, stopTimesRecords) ==
    IF \E i \in DOMAIN stopTimesRecords : ~StopTimeOfRecord(stopTimesRecords[i]).ok
    THEN {StopTimeOfRecord(stopTimesRecords[
              CHOOSE i \in DOMAIN stopTimesRecords :
                  /\ ~StopTimeOfRecord(stopTimesRecords[i]).ok
                  /\ \A j \in 1..(i - 1) : StopTimeOfRecord(stopTimesRecords[j]).ok])}
    ELSE IF \E i \in DOMAIN tripsRecords : ~Atoi(tripsRecords[i][4]).ok
    THEN {Err("invalid syntax")}
    ELSE LET kept == {i \in DOMAIN tripsRecords :
                         /\ TripStopsOf(stopTimesRecords, tripsRecords[i][3]) # <<>>
                         /\ \A j \in DOMAIN tripsRecords :
                                tripsRecords[j][3] = tripsRecords[i][3] => j <= i}
             ids == {tripsRecords[i][3] : i \in kept}
             rowOf(id) == tripsRecords[CHOOSE i \in kept : tripsRecords[i][3] = id]
         IN  {Ok(trips) : trips \in
                 {f \in [ids -> UNION {TripsOfRecord(rowOf(id), stopTimesRecords)
                                       : id \in ids}] :
                     \A id \in ids : f[id] \in TripsOfRecord(rowOf(id), stopTimesRecords)}}

\* A time of day as stop_times.txt writes it.
Clock(hours, minutes) ==
    <<Digit(hours \div 10), Digit(hours % 10), 58,
      Digit(minutes \div 10), Digit(minutes % 10), 58, 48, 48>>

\* A row of stop_times.txt: the trip calls at the stop at hours:minutes as
\* its stop number sequence.
StopTimeRecord(tripID, hours, minutes, stopID, sequence) ==
    <<tripID, Clock(hours, minutes), Clock(hours, minutes), stopID,
      <<Digit(sequence)>>, <<>>, <<>>, <<49>>>>

\* The rows of trip "7": stop "1" at 08:00 as number 1, stop "2" at 08:05 as
\* number 2 and stop "3" at 24:10 as number 3; a row of trip "t".
StopTimeRecords ==
    {StopTimeRecord(<<55>>, 8, 0, <<49>>, 1), StopTimeRecord(<<55>>, 8, 5, <<50>>, 2),
     StopTimeRecord(<<55>>, 24, 10, <<51>>, 3)}
NamedTripRecord == StopTimeRecord(<<116>>, 9, 0, <<49>>, 1)

\* stop_times.txt: rows of trip "7" in any order, with or without the row
\* of trip "t" after them.
StopTimesFiles ==
    UNION {{o, Append(o, NamedTripRecord)}
           : o \in UNION {Orders(S) : S \in SUBSET StopTimeRecords}}

\* trips.txt: the trips "7", "9" and "t" of route "r" and service "1".
TripsFile ==
    <<(<<(<<114>>), (<<49>>), (<<55>>), (<<48>>), (<<>>), (<<>>)>>),
      (<<(<<114>>), (<<49>>), (<<57>>), (<<49>>), (<<>>), (<<>>)>>),
      (<<(<<114>>), (<<49>>), (<<116>>), (<<48>>), (<<>>), (<<>>)>>)>>

ParseTripsCalls ==
    {[op |-> "ParseTrips", trips |-> TripsFile, stopTimes |-> records]
     : records \in StopTimesFiles}

PureParseTrips ==
    /\ query.op = "ParseTrips"
    /\ answer = NoCall
    /\ answer' \in ParseTrips(query.trips, query.stopTimes)
    /\ UNCHANGED <<codecVars, loadVars, feed, query, ingestVars>>

\* The rows of stop_times.txt of a trip, and the stop_sequence of a row.
RecordsOfTrip(records, id) == {r \in Elems(records) : r[1] = id}
StopSequence(record) == Atoi(record[5]).val

\* The row of a trip that a TripStop was made of.
RecordOfStop(records, id, stop) ==
    CHOOSE r \in RecordsOfTrip(records, id) :
        r[4] = stop.StopID /\ parseTime(r[2]).val = stop.ArrivalTime

\* C26: every trip ParseTrips produces has Stops that are not empty and in
\* ascending order of the stop_sequence of their rows, whatever the order
\* of the rows in stop_times.txt: StartTime() is the arrival at the stop of
\* the lowest sequence and EndTime() the departure at the one of the
\* highest.
C26_StopsOrderedBySequence ==
    (query.op = "ParseTrips" /\ answer # NoCall /\ answer.ok)
    => \A id \in DOMAIN answer.val :
           LET trip == answer.val[id]
               rows == RecordsOfTrip(query.stopTimes, id)
           IN  /\ Len(trip.Stops) > 0
               /\ \A i, j \in DOMAIN trip.Stops :
                      i < j => StopSequence(RecordOfStop(query.stopTimes, id, trip.Stops[i]))
                                   < StopSequence(RecordOfStop(query.stopTimes, id, trip.Stops[j]))
               /\ \E first, last \in rows :
                      /\ \A r \in rows : StopSequence(first) <= StopSequence(r)
                      /\ \A r \in rows : StopSequence(r) <= StopSequence(last)
                      /\ StartTime(trip) = parseTime(first[2]).val
                      /\ EndTime(trip) = parseTime(last[3]).val

---------------------------------------------------------------------------
(* The column-backed store (gtfsdb): FromDB makes a gtfsdb, initializes it  *)
(* and loads the container, a zip file of one section per collection and   *)
(* metadata.json.  db is the container and g the gtfsdb being loaded.       *)

CoordinatesPerRow == 2000

\* numRows of initialize: the coordinate columns of the shapes collection
\* for a longest shape of maxShapeLength coordinates, rounded up.
NumRows(maxShapeLength) ==
    (maxShapeLength + CoordinatesPerRow - 1) \div CoordinatesPerRow

\* initialize: every collection is made anew, the shapes collection with
\* the coordinate columns that db.maxShapeLength asks for at this moment.
initialize(gdb) ==
    [gdb EXCEPT !.columns = NumRows(gdb.maxShapeLength), !.restored = <<>>,
                !.restoredInto = -1]

\* The sections save writes other than shapes, in one order, and the
\* entries of a container: the sections with shapes after k of them (save
\* ranges over a map), and metadata.json last.
OtherSections ==
    <<"agencies", "routes", "services", "service_exceptions", "stops", "trips",
      "routes_by_name_index", "stops_by_name_index", "trips_by_route_index">>
ContainerEntries(k) ==
    SubSeq(OtherSections, 1, k) \o <<"shapes">>
    \o SubSeq(OtherSections, k + 1, Len(OtherSections)) \o <<"metadata.json">>

\* The containers: the longest shape has none, one, CoordinatesPerRow or
\* one more coordinates.
ShapeLengths == {0, 1, CoordinatesPerRow, CoordinatesPerRow + 1}
Containers ==
    {[entries |-> ContainerEntries(k),
      metadata |-> [version |-> CurrentVersion, created |-> Monday1,
                    max_shape_length |-> n]]
     : k \in 0..Len(OtherSections), n \in ShapeLengths}

\* db := &gtfsdb{}: no collection yet (columns is -1), maxShapeLength 0.
NewGtfsdb ==
    [maxShapeLength |-> 0, columns |-> -1, restored |-> <<>>,
     restoredInto |-> -1, i |-> 1, pc |-> "FromDB"]

ColumnInit ==
    /\ CodecIdle
    /\ IngestIdle
    /\ SchedIdle
    /\ db \in Containers
    /\ g = NewGtfsdb
    /\ lErr = NoCall

\* FromDB: db.initialize() on the new gtfsdb, before db.load.
ColumnFromDBInitialize ==
    /\ g.pc = "FromDB"
    /\ g' = [initialize(g) EXCEPT !.pc = "load"]
    /\ UNCHANGED <<codecVars, db, lErr, schedVars, ingestVars>>

\* load: db.initialize() again, the first statement of load.
ColumnLoadInitialize ==
    /\ g.pc = "load"
    /\ g' = [initialize(g) EXCEPT !.pc = "restore", !.i = 1]
    /\ UNCHANGED <<codecVars, db, lErr, schedVars, ingestVars>>

\* load: the next entry of the zip file is a section and is restored into
\* its collection; restoredInto is the number of coordinate columns the
\* shapes collection had when the shapes section was restored.
ColumnRestore ==
    /\ g.pc = "restore"
    /\ g.i <= Len(db.entries)
    /\ db.entries[g.i] # "metadata.json"
    /\ g' = [g EXCEPT !.restored = Append(@, db.entries[g.i]),
                      !.restoredInto = IF db.entries[g.i] = "shapes"
                                       THEN g.columns ELSE @,
                      !.i = @ + 1]
    /\ UNCHANGED <<codecVars, db, lErr, schedVars, ingestVars>>

\* load: an entry that is no section (metadata.json) is passed over in the
\* loop.
ColumnSkip ==
    /\ g.pc = "restore"
    /\ g.i <= Len(db.entries)
    /\ db.entries[g.i] = "metadata.json"
    /\ g' = [g EXCEPT !.i = @ + 1]
    /\ UNCHANGED <<codecVars, db, lErr, schedVars, ingestVars>>

\* load: after the loop metadata.json is read and db.maxShapeLength is set
\* from its max_shape_length.
ColumnReadMetadata ==
    /\ g.pc = "restore"
    /\ g.i > Len(db.entries)
    /\ g' = [g EXCEPT !.maxShapeLength = db.metadata.max_shape_length,
                      !.pc = "loaded"]
    /\ lErr' = [op |-> "load", err |-> "nil"]
    /\ UNCHANGED <<codecVars, db, schedVars, ingestVars>>

ColumnNext ==
    \/ ColumnFromDBInitialize
    \/ ColumnLoadInitialize
    \/ ColumnRestore
    \/ ColumnSkip
    \/ ColumnReadMetadata

SpecColumn == ColumnInit /\ [][ColumnNext]_vars

\* C28: when load restores the shapes section, the shapes collection has
\* been initialized with the number of coordinate columns that the
\* container's max_shape_length gives: the sizing parameter is read before
\* the section whose schema depends on it is restored.
C28_ShapesSizedBeforeRestore ==
    (g.pc \in {"restore", "loaded"} /\ "shapes" \in Elems(g.restored))
    => g.restoredInto = NumRows(db.metadata.max_shape_length)

---------------------------------------------------------------------------
(* The goroutines of FromURL under the scheduler.                           *)

\* The steps of the parse goroutines and of the collector, and the return
\* of wg.Wait() in the caller.
TaskStep(task) ==
    TaskSkip(task) \/ TaskParse(task) \/ TaskReport(task) \/ TaskSend(task)
JoinStep ==
    \/ \E task \in Tasks : TaskStep(task)
    \/ CollectorAssign
    \/ CollectorExit
    \/ MainWait

\* The scheduler runs a goroutine that can take a step: while one of these
\* steps can be taken, one of them is.
Fairness == WF_vars(JoinStep)

SpecIngestFair == IngestInit /\ [][IngestNext]_vars /\ Fairness

\* The parse goroutines that have returned.
ReturnedTasks == {task \in Tasks : pc[task] \in {"done", "failed"}}

\* The parse goroutines that are running: they may still send.
RunningTasks == {task \in Tasks : pc[task] \in {"parse", "report", "send", "send2"}}

\* Every goroutine FromURL started has returned, and so has FromURL.
AllReturned ==
    /\ ReturnedTasks = Tasks
    /\ pc["collector"] = "done"
    /\ pc["main"] = "done"
    /\ completion.closed

\* The parse goroutines and the collector have returned, and so has
\* wg.Wait().
Joined ==
    /\ ReturnedTasks = Tasks
    /\ pc["collector"] = "done"
    /\ pc["main"] \notin {"start", "wait"}

\* The goroutines have been started.
Started == pc["collector"] # "unborn"

\* The steps a goroutine has yet to take at most; a value sent on
\* completion costs the sender two, one of which the collector takes over
\* to assign it.
TaskRank(task) ==
    CASE pc[task] \in {"unborn", "parse"} -> 5
      [] pc[task] = "send" -> IF task = "shapes" THEN 4 ELSE 2
      [] pc[task] = "send2" -> 2
      [] pc[task] = "report" -> 1
      [] OTHER -> 0
CollectorRank ==
    CASE pc["collector"] \in {"unborn", "recv"} -> 1
      [] pc["collector"] = "assign" -> 2
      [] OTHER -> 0
MainRank ==
    CASE pc["main"] = "start" -> 5
      [] pc["main"] = "wait" -> 4
      [] pc["main"] = "select" -> 3
      [] pc["main"] = "initDB" -> 2
      [] pc["main"] = "FromDB" -> 1
      [] OTHER -> 0
Rank ==
    TaskRank("agencies") + TaskRank("routes") + TaskRank("services")
    + TaskRank("serviceExceptions") + TaskRank("shapes") + TaskRank("stops")
    + TaskRank("trips") + CollectorRank + MainRank

\* C29: whatever tasks fail and however the goroutines interleave, all
\* parse goroutines finish, wg.Wait() returns and the collector exits after
\* completion is closed.  While a parse goroutine may still send,
\* completion is not closed and FromURL has not returned (which closes
\* errChannel); the collector returns only once completion is closed; the
\* WaitGroup counts the parse goroutines that have not returned; as long as
\* one of them, the collector or wg.Wait() has not returned, one of them
\* can take a step; and every step brings the end nearer, so that under
\* the scheduler no goroutine waits forever.
C29_GoroutinesTerminate ==
    /\ [](RunningTasks # {} => (~completion.closed /\ pc["main"] = "wait"))
    /\ [](pc["collector"] = "done" => completion.closed)
    /\ [](Started => wg = Cardinality(Tasks \ ReturnedTasks))
    /\ []((Started /\ ~Joined) => ENABLED JoinStep)
    /\ [][Rank' < Rank]_vars

\* All goroutines have returned after one task failed, one was skipped and
\* the shapes were sent with their longest length.
C29_Witness ==
    /\ AllReturned
    /\ pc["trips"] = "failed"
    /\ parsed["maxShapeLength"] = "parsed"
    /\ parsed["serviceExceptions"] = "nil"
    /\ ret.state = "returned"

---------------------------------------------------------------------------
(* Ingests that stop on the way: the process ends between two transactions *)
(* of initDB, or initDB returns an error; and FromDB on the file they      *)
(* leave.                                                                  *)

\* The file after the first k batches of Populate have been committed, in
\* an ingest in which no commit fails: a batch with a Put that fails is
\* rolled back, and after the agencies batch has failed Populate returns.
PopulateUpTo(d, newFeed, env, k) ==
    LET b1 == PlainBatch(d, "agencies", newFeed.agencies, FALSE)
        b2 == NamedBatch(b1.db, "routes", "routesByNameIndex", newFeed.routes,
                         env.routeOrder, FALSE)
        b3 == PlainBatch(b2.db, "services", newFeed.services, FALSE)
        b4 == ServiceExceptionBatch(b3.db, newFeed.serviceExceptions, FALSE)
        b5 == PlainBatch(b4.db, "shapes", newFeed.shapes, FALSE)
        b6 == NamedBatch(b5.db, "stops", "stopsByNameIndex", newFeed.stops,
                         env.stopOrder, FALSE)
        b7 == TripBatch(b6.db, newFeed.trips, env.tripOrder, FALSE)
    IN  CASE k = 0 \/ b1.failed -> d
          [] k = 1 -> b1.db
          [] k = 2 -> b2.db
          [] k = 3 -> b3.db
          [] k = 4 -> b4.db
          [] k = 5 -> b5.db
          [] k = 6 -> b6.db
          [] OTHER -> b7.db

\* The batches of Populate: the metadata transaction of initDB comes after
\* the last of them.
PopulateBatches == Cardinality(BatchNames)

\* No ingest yet; inputs are the inputs of the ingests into the file.
NoCrashIngest ==
    [n |-> 0, input |-> StoreFeed({}, {}, {}, {}), err |-> "none", inputs |-> {}]

CrashInit ==
    /\ CodecIdle
    /\ IngestIdle
    /\ db = EmptyDB
    /\ g = ZeroGTFS
    /\ lErr = NoCall
    /\ feed = NoCrashIngest
    /\ query = NoCall
    /\ answer = NoCall

\* An ingest has left the file written and has ended with err.
CrashAfterIngest(newFeed, written, err) ==
    /\ db' = written
    /\ feed' = [n |-> feed.n + 1, input |-> newFeed, err |-> err,
                inputs |-> feed.inputs \cup {newFeed}]
    /\ lErr' = NoCall
    /\ UNCHANGED <<codecVars, g, query, answer, ingestVars>>

\* The process ends in initDB after k batches of Populate are committed
\* and before the metadata transaction is.
CrashIngestCrashes ==
    /\ feed.n < MaxIngests
    /\ g.db # "open"
    /\ \E newFeed \in StoreFeeds, k \in 0..PopulateBatches :
          CrashAfterIngest(newFeed,
                           PopulateUpTo(db, newFeed, QuietEnv(newFeed), k),
                           "crash")

\* initDB returns what it returns when transactions fail or none does.
CrashIngestReturns ==
    /\ feed.n < MaxIngests
    /\ g.db # "open"
    /\ \E newFeed \in StoreFeeds :
       \E env \in StoreEnvs(newFeed) :
       \E r \in {initDB(db, newFeed, env)} :
          CrashAfterIngest(newFeed, r.db, IF r.err THEN "initDB" ELSE "nil")

\* A later FromDB on the file.
CrashFromDB ==
    /\ g.db # "open"
    /\ \E r \in {FromDB(g, db, FALSE)} :
          /\ g' = r.g
          /\ lErr' = [op |-> "FromDB", err |-> r.err]
    /\ UNCHANGED <<codecVars, db, schedVars, ingestVars>>

\* g.Close().
CrashClose ==
    /\ g.db = "open"
    /\ g' = Close(g)
    /\ lErr' = NoCall
    /\ UNCHANGED <<codecVars, db, schedVars, ingestVars>>

CrashNext ==
    \/ CrashIngestCrashes
    \/ CrashIngestReturns
    \/ CrashFromDB
    \/ CrashClose

SpecCrash == CrashInit /\ [][CrashNext]_vars

\* The file holds every collection and index of the ingest of input, and
\* nothing else.
WhollyWritten(d, input) ==
    \A name \in RequiredBuckets : Held(d, name) = DerivedKeys(input, name)

\* C30: FromDB succeeds only on a file in which every collection and index
\* of one single ingest was completely written; on the file of an ingest
\* that stopped before the metadata transaction of initDB committed, with
\* another ingest's file not standing whole, FromDB fails.
C30_LoadsOnlyWholeIngest ==
    (lErr.op = "FromDB" /\ lErr.err = "nil")
    => \E input \in feed.inputs : WhollyWritten(db, input)

---------------------------------------------------------------------------
(* The functions on their own: a call is drawn, and the function is        *)
(* applied to it.                                                          *)

PureCalls ==
    IntervalCalls \cup WeekdayCalls \cup AggregationCalls \cup ExceptionCalls
    \cup ReadCalls \cup ParseTripsCalls

PureInit ==
    /\ CodecIdle
    /\ IngestIdle
    /\ LoadIdle
    /\ feed = <<>>
    /\ query \in PureCalls
    /\ answer = NoCall

PureNext ==
    \/ PureIsTripWithinInterval
    \/ PureHasDay
    \/ PureGetRouteShapeAndStops
    \/ PureGetServiceException
    \/ PureDecodeUnderKey
    \/ PureParseTrips

SpecPure == PureInit /\ [][PureNext]_vars

=============================================================================
